---- MODULE Spec2Model ----
(***************************************************************************)
(* A model of libldm's src/ldm.c: the LDM registry (ldm_new, ldm_add,      *)
(* ldm_add_fd, ldm_dispose), the PRIVHEAD / TOCBLOCK / VMDB readers, the   *)
(* VBLK stream parser with its spanned-record reassembly, the record       *)
(* decoders and the resolver that links partitions, components and         *)
(* volumes.                                                                *)
(*                                                                         *)
(* Pointers are modelled as 1-based indices into the array that owns the   *)
(* object (0 is the null pointer); char* NULL is the string NULL.          *)
(***************************************************************************)
EXTENDS Integers, Sequences, FiniteSets, TLC

\* ------------------------------------------------------------------------
\* Values

\* A char* that is NULL.
NULL == "(null)"

\* LDMError codes.
LDM_ERROR_INTERNAL == "Internal"
LDM_ERROR_IO == "Io"
LDM_ERROR_NOT_LDM == "NotLdm"
LDM_ERROR_INVALID == "Invalid"
LDM_ERROR_INCONSISTENT == "Inconsistent"
LDM_ERROR_NOTSUPPORTED == "NotSupported"
LDM_ERROR_MISSING_DISK == "MissingDisk"
\* *err left unset.
NO_ERROR == "none"

\* LDMVolumeType and LDMComponentType (on-disk byte values).
LDM_VOLUME_TYPE_GEN == 3
LDM_VOLUME_TYPE_RAID5 == 4
LDM_COMPONENT_TYPE_STRIPED == 1
LDM_COMPONENT_TYPE_SPANNED == 2
LDM_COMPONENT_TYPE_RAID == 3

\* sizeof(uint32_t), sizeof(uint64_t): the widest var-int each accepts.
SizeofU32 == 4
SizeofU64 == 8

\* ------------------------------------------------------------------------
\* Generic helpers

Range(s) == {s[i] : i \in 1..Len(s)}

\* flags & bit, for a single-bit mask.
BitSet(flags, bit) == (flags \div bit) % 2 = 1

\* The first of the indices ix, 0 when there is none: the shape of every
\* "for (...) if (match) { ...; break; }" lookup of the source, with ix
\* the indices that match.
FirstIndex(ix) ==
    IF ix = {} THEN 0 ELSE CHOOSE i \in ix : \A j \in ix : i <= j

\* The last of the indices ix, 0 when there is none: a lookup loop without
\* break.
LastIndex(ix) ==
    IF ix = {} THEN 0 ELSE CHOOSE i \in ix : \A j \in ix : j <= i

\* F(v), with v computed once, before F is applied: the value a local
\* variable holds after its assignment.
Eval(v, F(_)) == CHOOSE y \in {F(x) : x \in {v}} : TRUE

\* ------------------------------------------------------------------------
\* libuuid

\* Binary uuid_t values are small naturals; NilUuid is sixteen zero bytes.
NilUuid == 0

\* uuid_parse: the textual forms the model uses and the uuid_t each parses
\* to (hex digits are case-insensitive, so two texts can name one uuid_t);
\* any other text makes uuid_parse return -1.
UuidTexts == {"uuid-a", "UUID-A", "uuid-b", "uuid-c", "uuid-g1", "uuid-g2"}

uuid_parse_value(text) ==
    CASE text \in {"uuid-a", "UUID-A"} -> 10
      [] text = "uuid-b" -> 11
      [] text = "uuid-c" -> 12
      [] text = "uuid-g1" -> 21
      [] text = "uuid-g2" -> 22
      [] OTHER -> NilUuid

uuid_parse(text) ==
    IF text \in UuidTexts
    THEN [rc |-> 0, uu |-> uuid_parse_value(text)]
    ELSE [rc |-> -1, uu |-> NilUuid]

uuid_compare(a, b) == IF a < b THEN -1 ELSE IF a > b THEN 1 ELSE 0

\* ------------------------------------------------------------------------
\* Variable-length primitives

\* The byte at 1-based position cur of var (0 past its end).
ByteAt(var, cur) == IF cur \in 1..Len(var) THEN var[cur] ELSE 0

\* The big-endian value of the n bytes of var that start at cur:
\* "*out <<= 8; *out += **var" repeated n times.
RECURSIVE BigEndian(_, _, _, _)
BigEndian(var, cur, n, acc) ==
    IF n = 0 THEN acc
    ELSE BigEndian(var, cur + 1, n - 1, acc * 256 + ByteAt(var, cur))

\* The same with the width check one too strict.
PARSE_VAR_INT_Strict(var, cur, size) ==
    LET i == ByteAt(var, cur) IN
    IF i >= size
    THEN [ok |-> FALSE, err |-> LDM_ERROR_INTERNAL, out |-> 0, cur |-> cur + 1]
    ELSE [ok |-> TRUE, err |-> NO_ERROR,
          out |-> BigEndian(var, cur + 1, i, 0), cur |-> cur + 1 + i]

\* PARSE_VAR_INT(func_name, out_type): size is sizeof(out_type). The cursor
\* has passed the length byte when the width check fails.
PARSE_VAR_INT(var, cur, size) ==
    LET i == ByteAt(var, cur) IN
    IF i > size
    THEN [ok |-> FALSE, err |-> LDM_ERROR_INTERNAL, out |-> 0, cur |-> cur + 1]
    ELSE [ok |-> TRUE, err |-> NO_ERROR,
          out |-> BigEndian(var, cur + 1, i, 0), cur |-> cur + 1 + i]

_parse_var_int32(var) == PARSE_VAR_INT(var, 1, SizeofU32)
_parse_var_int64(var) == PARSE_VAR_INT(var, 1, SizeofU64)

\* A var-int field holding v in one byte, and one whose length byte (9) is
\* wider than any target.
VarInt(v) == <<1, v>>
WideVarInt == <<9, 0, 0, 0, 0, 0, 0, 0, 0, 0>>

\* ------------------------------------------------------------------------
\* Record decoders. A payload is [flags, type, body]: the two bytes of
\* struct _vblk_rec_head the decoders read and the fields that follow it,
\* var-ints as their bytes, strings and fixed-width integers as values.

DecodeOk(obj) == [ok |-> TRUE, err |-> NO_ERROR, obj |-> obj]
DecodeFail(e) == [ok |-> FALSE, err |-> e, obj |-> <<>>]

\* Objects as g_object_new leaves them (the private struct is bzero'd).
NewVolume ==
    [id |-> 0, name |-> NULL, dgname |-> NULL, type |-> 0, size |-> 0,
     part_type |-> 0, flags |-> 0, n_comps |-> 0, comps |-> <<>>,
     id1 |-> NULL, id2 |-> NULL, size2 |-> 0, hint |-> NULL]
NewComponent ==
    [id |-> 0, parent_id |-> 0, name |-> NULL, type |-> 0, n_parts |-> 0,
     parts |-> <<>>, stripe_size |-> 0, n_columns |-> 0]
NewPartition ==
    [id |-> 0, parent_id |-> 0, name |-> NULL, start |-> 0, vol_offset |-> 0,
     size |-> 0, index |-> 0, disk_id |-> 0, disk |-> 0]
NewDisk ==
    [id |-> 0, name |-> NULL, dgname |-> NULL, data_start |-> 0,
     data_size |-> 0, metadata_start |-> 0, metadata_size |-> 0,
     guid |-> NilUuid, device |-> NULL]

_parse_vblk_vol(revision, flags, vblk) ==
    LET id == _parse_var_int32(vblk.id)
        n_comps == _parse_var_int32(vblk.n_comps)
        size == _parse_var_int64(vblk.size)
        size2 == _parse_var_int64(vblk.size2)
    IN
    IF revision # 5 THEN DecodeFail(LDM_ERROR_NOTSUPPORTED)
    ELSE IF ~id.ok THEN DecodeFail(id.err)
    ELSE IF vblk.type \notin {LDM_VOLUME_TYPE_GEN, LDM_VOLUME_TYPE_RAID5}
    THEN DecodeFail(LDM_ERROR_NOTSUPPORTED)
    ELSE IF ~n_comps.ok THEN DecodeFail(n_comps.err)
    ELSE IF ~size.ok THEN DecodeFail(size.err)
    ELSE IF BitSet(flags, 128) /\ ~size2.ok THEN DecodeFail(size2.err)
    ELSE DecodeOk(
        [NewVolume EXCEPT
            !.id = id.out, !.name = vblk.name, !.type = vblk.type,
            !.flags = vblk.flags, !.n_comps = n_comps.out,
            !.size = size.out, !.part_type = vblk.part_type,
            !.id1 = IF BitSet(flags, 8) THEN vblk.id1 ELSE NULL,
            !.id2 = IF BitSet(flags, 32) THEN vblk.id2 ELSE NULL,
            !.size2 = IF BitSet(flags, 128) THEN size2.out ELSE 0,
            !.hint = IF BitSet(flags, 2) THEN vblk.hint ELSE NULL])

_parse_vblk_comp(revision, flags, vblk) ==
    LET id == _parse_var_int32(vblk.id)
        n_parts == _parse_var_int32(vblk.n_parts)
        parent_id == _parse_var_int32(vblk.parent_id)
        stripe_size == _parse_var_int64(vblk.stripe_size)
        n_columns == _parse_var_int32(vblk.n_columns)
    IN
    IF revision # 3 THEN DecodeFail(LDM_ERROR_NOTSUPPORTED)
    ELSE IF ~id.ok THEN DecodeFail(id.err)
    ELSE IF vblk.type \notin {LDM_COMPONENT_TYPE_STRIPED,
                              LDM_COMPONENT_TYPE_SPANNED,
                              LDM_COMPONENT_TYPE_RAID}
    THEN DecodeFail(LDM_ERROR_NOTSUPPORTED)
    ELSE IF ~n_parts.ok THEN DecodeFail(n_parts.err)
    ELSE IF ~parent_id.ok THEN DecodeFail(parent_id.err)
    ELSE IF BitSet(flags, 16) /\ ~stripe_size.ok THEN DecodeFail(stripe_size.err)
    ELSE IF BitSet(flags, 16) /\ ~n_columns.ok THEN DecodeFail(n_columns.err)
    ELSE DecodeOk(
        [NewComponent EXCEPT
            !.id = id.out, !.name = vblk.name, !.type = vblk.type,
            !.n_parts = n_parts.out, !.parent_id = parent_id.out,
            !.stripe_size = IF BitSet(flags, 16) THEN stripe_size.out ELSE 0,
            !.n_columns = IF BitSet(flags, 16) THEN n_columns.out ELSE 0])

_parse_vblk_part(revision, flags, vblk) ==
    LET id == _parse_var_int32(vblk.id)
        size == _parse_var_int64(vblk.size)
        parent_id == _parse_var_int32(vblk.parent_id)
        disk_id == _parse_var_int32(vblk.disk_id)
        index == _parse_var_int32(vblk.index)
    IN
    IF revision # 3 THEN DecodeFail(LDM_ERROR_NOTSUPPORTED)
    ELSE IF ~id.ok THEN DecodeFail(id.err)
    ELSE IF ~size.ok THEN DecodeFail(size.err)
    ELSE IF ~parent_id.ok THEN DecodeFail(parent_id.err)
    ELSE IF ~disk_id.ok THEN DecodeFail(disk_id.err)
    ELSE IF BitSet(flags, 8) /\ ~index.ok THEN DecodeFail(index.err)
    ELSE DecodeOk(
        [NewPartition EXCEPT
            !.id = id.out, !.name = vblk.name, !.start = vblk.start,
            !.vol_offset = vblk.vol_offset, !.size = size.out,
            !.parent_id = parent_id.out, !.disk_id = disk_id.out,
            !.index = IF BitSet(flags, 8) THEN index.out ELSE 0])

\* Revision 3 carries the GUID as text (vblk.guid_text), revision 4 as
\* sixteen raw bytes (vblk.guid_raw).
_parse_vblk_disk(revision, flags, vblk) ==
    LET id == _parse_var_int32(vblk.id)
        guid == uuid_parse(vblk.guid_text)
    IN
    IF ~id.ok THEN DecodeFail(id.err)
    ELSE IF revision = 3
    THEN IF guid.rc = -1 THEN DecodeFail(LDM_ERROR_INVALID)
         ELSE DecodeOk([NewDisk EXCEPT !.id = id.out, !.name = vblk.name,
                                       !.guid = guid.uu])
    ELSE IF revision = 4
    THEN DecodeOk([NewDisk EXCEPT !.id = id.out, !.name = vblk.name,
                                  !.guid = vblk.guid_raw])
    ELSE DecodeFail(LDM_ERROR_NOTSUPPORTED)

\* The decoded object is the pair of fields the record sets in the group.
_parse_vblk_disk_group(revision, flags, vblk) ==
    LET id == _parse_var_int32(vblk.id) IN
    IF revision # 3 /\ revision # 4 THEN DecodeFail(LDM_ERROR_NOTSUPPORTED)
    ELSE IF ~id.ok THEN DecodeFail(id.err)
    ELSE DecodeOk([id |-> id.out, name |-> vblk.name])

\* ------------------------------------------------------------------------
\* VBLK entries and records

\* A disk group as g_object_new leaves it, with the GUID ldm_add_fd copies
\* into it.
NewDiskGroup(guid) ==
    [guid |-> guid, id |-> 0, name |-> NULL, sequence |-> 0,
     n_disks |-> 0, n_comps |-> 0, n_parts |-> 0, n_vols |-> 0,
     disks |-> <<>>, comps |-> <<>>, parts |-> <<>>, vols |-> <<>>]

ParseOk(dg) == [ok |-> TRUE, err |-> NO_ERROR, dg |-> dg]
ParseFail(e, dg) == [ok |-> FALSE, err |-> e, dg |-> dg]

\* _parse_vblk: the object is appended to its array before it is decoded.
_parse_vblk(data, dg) ==
    LET type == data.type % 16
        revision == (data.type \div 16) % 16
    IN
    CASE type = 0 -> ParseOk(dg)
      [] type = 1 ->
            LET r == _parse_vblk_vol(revision, data.flags, data.body) IN
            IF r.ok THEN ParseOk([dg EXCEPT !.vols = Append(@, r.obj)])
            ELSE ParseFail(r.err, [dg EXCEPT !.vols = Append(@, NewVolume)])
      [] type = 2 ->
            LET r == _parse_vblk_comp(revision, data.flags, data.body) IN
            IF r.ok THEN ParseOk([dg EXCEPT !.comps = Append(@, r.obj)])
            ELSE ParseFail(r.err, [dg EXCEPT !.comps = Append(@, NewComponent)])
      [] type = 3 ->
            LET r == _parse_vblk_part(revision, data.flags, data.body) IN
            IF r.ok THEN ParseOk([dg EXCEPT !.parts = Append(@, r.obj)])
            ELSE ParseFail(r.err, [dg EXCEPT !.parts = Append(@, NewPartition)])
      [] type = 4 ->
            LET r == _parse_vblk_disk(revision, data.flags, data.body) IN
            IF r.ok THEN ParseOk([dg EXCEPT !.disks = Append(@, r.obj)])
            ELSE ParseFail(r.err, [dg EXCEPT !.disks = Append(@, NewDisk)])
      [] type = 5 ->
            LET r == _parse_vblk_disk_group(revision, data.flags, data.body) IN
            IF r.ok THEN ParseOk([dg EXCEPT !.id = r.obj.id, !.name = r.obj.name])
            ELSE ParseFail(r.err, dg)
      [] OTHER -> ParseFail(LDM_ERROR_NOTSUPPORTED, dg)

\* _cmp_component_parts on two LDMPartition objects.
_cmp_component_parts(ao, bo) ==
    IF ao.index < bo.index THEN -1
    ELSE IF ao.index > bo.index THEN 1
    ELSE 0

\* g_array_sort(comp->parts, _cmp_component_parts) on an array of pointers
\* into parts. GLib documents g_array_sort as a stable sort (since 2.32):
\* elements that compare equal keep their order.
RECURSIVE InsertSorted(_, _, _)
InsertSorted(sorted, p, parts) ==
    IF sorted = <<>> THEN <<p>>
    ELSE IF _cmp_component_parts(parts[p], parts[Head(sorted)]) < 0
    THEN <<p>> \o sorted
    ELSE <<Head(sorted)>> \o InsertSorted(Tail(sorted), p, parts)

\* The array left in the order of the stream.
g_array_unsorted(ptrs, parts) == ptrs

RECURSIVE g_array_sort(_, _)
g_array_sort(ptrs, parts) ==
    IF ptrs = <<>> THEN <<>>
    ELSE Eval(g_array_sort(SubSeq(ptrs, 1, Len(ptrs) - 1), parts),
              LAMBDA sorted : InsertSorted(sorted, ptrs[Len(ptrs)], parts))

\* ------------------------------------------------------------------------
\* Payloads. The encoding of a record fills nfrags payload areas of
\* vblk_data_size bytes; a payload [rec, frag] is area number frag of the
\* encoding of rec. Area 0 starts with struct _vblk_rec_head and, for a
\* record of several areas, holds the id and the name; the other fields
\* are in the later areas.

BlankRecord ==
    [flags |-> 0, type |-> 0, nfrags |-> 1, body |-> [zero |-> TRUE]]

\* vblk_data_size zero bytes, as g_malloc0 leaves every area of a buffer.
ZeroPayload == [rec |-> BlankRecord, frag |-> 0]

\* Bytes from the middle of a record read as a record header: the type
\* nibble is modelled as one that _parse_vblk does not know.
GarbageRecord ==
    [flags |-> 0, type |-> 255, nfrags |-> 1, body |-> [zero |-> FALSE]]

\* The fields of rec that lie after area 0, read from zero bytes: var-ints
\* of length 0, empty strings, zero integers.
ZeroTail(rec) ==
    LET type == rec.type % 16
        zero == <<0>>
    IN
    CASE type = 1 ->
            [rec EXCEPT !.body = [@ EXCEPT !.type = 0, !.flags = 0,
                !.n_comps = zero, !.size = zero, !.part_type = 0,
                !.id1 = "", !.id2 = "", !.size2 = zero, !.hint = ""]]
      [] type = 2 ->
            [rec EXCEPT !.body = [@ EXCEPT !.type = 0, !.n_parts = zero,
                !.parent_id = zero, !.stripe_size = zero, !.n_columns = zero]]
      [] type = 3 ->
            [rec EXCEPT !.body = [@ EXCEPT !.start = 0, !.vol_offset = 0,
                !.size = zero, !.parent_id = zero, !.disk_id = zero,
                !.index = zero]]
      [] type = 4 ->
            [rec EXCEPT !.body = [@ EXCEPT !.guid_text = "", !.guid_raw = NilUuid]]
      [] OTHER -> rec

\* The area at slot i of a reassembly buffer (zero where nothing was copied).
SlotAt(data, i) == IF i \in DOMAIN data THEN data[i] ELSE ZeroPayload

\* The record that _parse_vblk reads at the start of a buffer whose areas
\* are data: the record of area 0 when every later area it needs is there,
\* its zero-tailed form otherwise.
RecordOfBuffer(data) ==
    LET s0 == SlotAt(data, 0) IN
    IF s0 = ZeroPayload THEN BlankRecord
    ELSE IF s0.frag # 0 THEN GarbageRecord
    ELSE IF \A i \in 1..(s0.rec.nfrags - 1) :
                SlotAt(data, i) = [rec |-> s0.rec, frag |-> i]
    THEN s0.rec
    ELSE ZeroTail(s0.rec)

\* The host's byte order: the build is for a little-endian machine.
HostLittleEndian == TRUE

\* A 16-bit field read without be16toh, given its big-endian value.
Bswap16(x) == (x % 256) * 256 + (x \div 256)
Raw16(x) == IF HostLittleEndian THEN Bswap16(x) ELSE x

\* ------------------------------------------------------------------------
\* _parse_vblks, first part: the loop over the VBLK entries. An entry is
\* [magic, record_id, entry, entries_total, data]: magic is whether the
\* four bytes are "VBLK", the integers are the big-endian values of the
\* header fields, data is the payload.

LoopOk(dg, spanned, overflow) ==
    [ok |-> TRUE, err |-> NO_ERROR, dg |-> dg, spanned |-> spanned,
     overflow |-> overflow, more |-> FALSE]
LoopFail(e, dg, spanned, overflow) ==
    [ok |-> FALSE, err |-> e, dg |-> dg, spanned |-> spanned,
     overflow |-> overflow, more |-> FALSE]

\* The state of the loop when it goes on to the next entry.
LoopNext(dg, spanned, overflow) ==
    [ok |-> TRUE, err |-> NO_ERROR, dg |-> dg, spanned |-> spanned,
     overflow |-> overflow, more |-> TRUE]

\* struct _spanned_rec for the first entry seen of a record: buffer of
\* head->entries_total (not byte-swapped) areas from g_malloc0.
NewSpannedRec(head) ==
    [record_id |-> head.record_id,
     entries_total |-> head.entries_total,
     entries_found |-> 1,
     alloc |-> Raw16(head.entries_total),
     data |-> (head.entry :> head.data)]

\* memcpy(&r->data[entry * vblk_data_size], vblk, vblk_data_size)
CopyPayload(r, head) ==
    [r EXCEPT !.data = (head.entry :> head.data) @@ @]

\* One turn of the loop, for the entry at position i: the loop ends at an
\* entry without the magic, fails, or goes on. overflow records whether
\* some memcpy so far wrote past the areas its buffer was allocated with.
VblkEntry(vblks, i, dg, spanned, overflow) ==
    LET head == vblks[i] IN
    IF ~head.magic THEN LoopOk(dg, spanned, overflow)
    ELSE IF head.entries_total > 0 /\ head.entry >= head.entries_total
    THEN LoopFail(LDM_ERROR_INVALID, dg, spanned, overflow)
    ELSE IF head.entries_total > 1
    THEN Eval(FirstIndex({k \in 1..Len(spanned) :
                             spanned[k].record_id = head.record_id}),
              LAMBDA k :
         IF k # 0
         THEN LoopNext(dg,
                  [spanned EXCEPT ![k] =
                      [CopyPayload(@, head) EXCEPT
                          !.entries_found = (@ + 1) % 65536]],
                  overflow \/ head.entry >= spanned[k].alloc)
         ELSE LoopNext(dg,
                  Append(spanned, NewSpannedRec(head)),
                  overflow \/ head.entry >= Raw16(head.entries_total)))
    ELSE Eval(_parse_vblk(RecordOfBuffer(0 :> head.data), dg),
              LAMBDA r :
         IF r.ok THEN LoopNext(r.dg, spanned, overflow)
         ELSE LoopFail(r.err, r.dg, spanned, overflow))

\* The turns of the loop for the entries at positions lo..hi, from the
\* state st: those of the lower half, then those of the upper half.
RECURSIVE VblkRange(_, _, _, _)
VblkRange(vblks, lo, hi, st) ==
    IF ~st.more THEN st
    ELSE IF lo = hi
    THEN VblkEntry(vblks, lo, st.dg, st.spanned, st.overflow)
    ELSE Eval(VblkRange(vblks, lo, (lo + hi) \div 2, st),
              LAMBDA s : VblkRange(vblks, ((lo + hi) \div 2) + 1, hi, s))

\* The loop from position i on: it ends at the end of the config or at the
\* first entry without the magic.
VblkLoop(vblks, i, dg, spanned, overflow) ==
    IF i > Len(vblks) THEN LoopOk(dg, spanned, overflow)
    ELSE Eval(VblkRange(vblks, i, Len(vblks),
                        LoopNext(dg, spanned, overflow)),
              LAMBDA s : [s EXCEPT !.more = FALSE])

\* The same loop over the spanned records from the last one seen to the
\* first.
RECURSIVE SpannedLoopBackwards(_, _, _)
SpannedLoopBackwards(spanned, i, dg) ==
    IF i > Len(spanned) THEN ParseOk(dg)
    ELSE IF spanned[Len(spanned) + 1 - i].entries_found
                # spanned[Len(spanned) + 1 - i].entries_total
    THEN ParseFail(LDM_ERROR_INVALID, dg)
    ELSE Eval(_parse_vblk(RecordOfBuffer(spanned[Len(spanned) + 1 - i].data),
                          dg),
              LAMBDA r : IF r.ok THEN SpannedLoopBackwards(spanned, i + 1, r.dg)
                         ELSE ParseFail(r.err, r.dg))

\* _parse_vblks, second part: every spanned record must be complete, and
\* is decoded from its buffer, in the order the records were first seen.
RECURSIVE SpannedLoop(_, _, _)
SpannedLoop(spanned, i, dg) ==
    IF i > Len(spanned) THEN ParseOk(dg)
    ELSE IF spanned[i].entries_found # spanned[i].entries_total
    THEN ParseFail(LDM_ERROR_INVALID, dg)
    ELSE Eval(_parse_vblk(RecordOfBuffer(spanned[i].data), dg),
              LAMBDA r : IF r.ok THEN SpannedLoop(spanned, i + 1, r.dg)
                         ELSE ParseFail(r.err, r.dg))

\* ------------------------------------------------------------------------
\* _parse_vblks, third part: counts and links

\* The partition loop without its two "not found" exits.
RECURSIVE LinkPartsUnchecked(_, _)
LinkPartsUnchecked(dg, i) ==
    IF i > dg.n_parts THEN ParseOk(dg)
    ELSE
    Eval(<<FirstIndex({j \in 1..Len(dg.disks) :
                         dg.disks[j].id = dg.parts[i].disk_id}),
           FirstIndex({c \in 1..Len(dg.comps) :
                         dg.comps[c].id = dg.parts[i].parent_id})>>,
         LAMBDA f :
    Eval(IF f[2] = 0 THEN [dg EXCEPT !.parts[i].disk = f[1]]
         ELSE [dg EXCEPT !.parts[i].disk = f[1],
                         !.comps[f[2]].parts = Append(@, i)],
         LAMBDA linked : LinkPartsUnchecked(linked, i + 1)))

\* for each partition: part->priv->disk and the parent component's parts.
RECURSIVE LinkParts(_, _)
LinkParts(dg, i) ==
    IF i > dg.n_parts THEN ParseOk(dg)
    ELSE
    Eval(<<FirstIndex({j \in 1..Len(dg.disks) :
                         dg.disks[j].id = dg.parts[i].disk_id}),
           FirstIndex({c \in 1..Len(dg.comps) :
                         dg.comps[c].id = dg.parts[i].parent_id})>>,
         LAMBDA f :
    IF f[1] = 0 THEN ParseFail(LDM_ERROR_INVALID, dg)
    ELSE IF f[2] = 0
    THEN ParseFail(LDM_ERROR_INVALID, [dg EXCEPT !.parts[i].disk = f[1]])
    ELSE Eval([dg EXCEPT !.parts[i].disk = f[1],
                         !.comps[f[2]].parts = Append(@, i)],
              LAMBDA linked : LinkParts(linked, i + 1)))

\* The component loop without the comparison of the child count.
RECURSIVE LinkCompsUncounted(_, _)
LinkCompsUncounted(dg, i) ==
    IF i > dg.n_comps THEN ParseOk(dg)
    ELSE
    Eval(<<g_array_sort(dg.comps[i].parts, dg.parts),
           FirstIndex({v \in 1..Len(dg.vols) :
                         dg.vols[v].id = dg.comps[i].parent_id})>>,
         LAMBDA f :
    IF f[2] = 0
    THEN ParseFail(LDM_ERROR_INVALID, [dg EXCEPT !.comps[i].parts = f[1]])
    ELSE Eval([dg EXCEPT !.comps[i].parts = f[1],
                         !.vols[f[2]].comps = Append(@, i)],
              LAMBDA linked : LinkCompsUncounted(linked, i + 1)))

\* for each component: the child count, the sort and the parent volume.
RECURSIVE LinkComps(_, _)
LinkComps(dg, i) ==
    IF i > dg.n_comps THEN ParseOk(dg)
    ELSE IF Len(dg.comps[i].parts) # dg.comps[i].n_parts
    THEN ParseFail(LDM_ERROR_INVALID, dg)
    ELSE
    Eval(<<g_array_sort(dg.comps[i].parts, dg.parts),
           FirstIndex({v \in 1..Len(dg.vols) :
                         dg.vols[v].id = dg.comps[i].parent_id})>>,
         LAMBDA f :
    IF f[2] = 0
    THEN ParseFail(LDM_ERROR_INVALID, [dg EXCEPT !.comps[i].parts = f[1]])
    ELSE Eval([dg EXCEPT !.comps[i].parts = f[1],
                         !.vols[f[2]].comps = Append(@, i)],
              LAMBDA linked : LinkComps(linked, i + 1)))

\* for each volume: the child count and the copy of the group's name.
RECURSIVE CheckVols(_, _)
CheckVols(dg, i) ==
    IF i > dg.n_vols THEN ParseOk(dg)
    ELSE IF Len(dg.vols[i].comps) # dg.vols[i].n_comps
    THEN ParseFail(LDM_ERROR_INVALID, dg)
    ELSE Eval([dg EXCEPT !.vols[i].dgname = dg.name],
              LAMBDA named : CheckVols(named, i + 1))

\* for each disk: the copy of the group's name.
NameDisks(dg) ==
    [dg EXCEPT !.disks = [i \in 1..Len(dg.disks) |->
                              IF i <= dg.n_disks
                              THEN [dg.disks[i] EXCEPT !.dgname = dg.name]
                              ELSE dg.disks[i]]]

\* The code after the two loops: the four counts against the VMDB, then
\* the links.
ResolveGroup(dg) ==
    IF Len(dg.disks) # dg.n_disks THEN ParseFail(LDM_ERROR_INVALID, dg)
    ELSE IF Len(dg.comps) # dg.n_comps THEN ParseFail(LDM_ERROR_INVALID, dg)
    ELSE IF Len(dg.parts) # dg.n_parts THEN ParseFail(LDM_ERROR_INVALID, dg)
    ELSE IF Len(dg.vols) # dg.n_vols THEN ParseFail(LDM_ERROR_INVALID, dg)
    ELSE
    Eval(LinkParts(dg, 1), LAMBDA p :
    IF ~p.ok THEN p
    ELSE
    Eval(LinkComps(p.dg, 1), LAMBDA c :
    IF ~c.ok THEN c
    ELSE
    Eval(CheckVols(c.dg, 1), LAMBDA v :
    IF ~v.ok THEN v
    ELSE ParseOk(NameDisks(v.dg)))))

\* _parse_vblks(config, path, vmdb, dg_o, err): vmdb is the VMDB header,
\* vblks the entries that follow it at vblk_first_offset.
_parse_vblks(vmdb, vblks, dg_o) ==
    Eval([dg_o EXCEPT
             !.sequence = vmdb.committed_seq,
             !.n_disks = vmdb.n_committed_vblks_disk,
             !.n_comps = vmdb.n_committed_vblks_comp,
             !.n_parts = vmdb.n_committed_vblks_part,
             !.n_vols = vmdb.n_committed_vblks_vol],
         LAMBDA dg :
    Eval(VblkLoop(vblks, 1, dg, <<>>, FALSE), LAMBDA loop :
    IF ~loop.ok THEN ParseFail(loop.err, loop.dg)
    ELSE
    Eval(SpannedLoop(loop.spanned, 1, loop.dg), LAMBDA sp :
    IF ~sp.ok THEN sp
    ELSE ResolveGroup(sp.dg))))

\* ------------------------------------------------------------------------
\* A device. img is what the file descriptor gives access to and how the
\* host answers for it:
\*   open          "ok" | "error": open(path, O_RDONLY)
\*   blkssz        the sector size ioctl(BLKSSZGET) reports, -1 when it fails
\*   mbr           "ok" | "invalid" | "read": the result of mbr_read
\*   part0_type    the type of the first MBR partition
\*   gpt_open      "ok" | "invalid" | "read": the result of gpt_open_secsize
\*   gpt_get_pte   "ok" | "invalid" | "read": the result of gpt_get_pte
\*   ptes          the GPT partition entries, each [type, last_lba]
\*   pread_ph      "ok" | "eof" | "error": pread while reading PRIVHEAD
\*   ph_offset     the byte offset at which the device holds "PRIVHEAD"
\*   privhead      struct _privhead (big-endian fields as their values)
\*   fstat         "ok" | "error"
\*   size          the device size in bytes (st_size or BLKGETSIZE64)
\*   pread_config  "ok" | "eof" | "error": pread while reading the config
\*   config        the config area: toc_magic, bitmap, vmdb_sector, vmdb
\*                 (struct _vmdb, magic included) and the VBLK entries

MBR_PART_WINDOWS_LDM == "MBR_PART_WINDOWS_LDM"
MBR_PART_EFI_PROTECTIVE == "MBR_PART_EFI_PROTECTIVE"
LDM_METADATA == "AAC80858-8F7E-E042-85D2-E1E90434CFB3"

\* uint64_t arithmetic, on a word scaled down to 16 bits.
WordModulus == 65536
Wrap64(x) == x % WordModulus

ReadOk(v) == [ok |-> TRUE, err |-> NO_ERROR, val |-> v]
ReadFail(e) == [ok |-> FALSE, err |-> e, val |-> [none |-> TRUE]]

_read_privhead_off(img, ph_start) ==
    IF img.pread_ph = "eof" THEN ReadFail(LDM_ERROR_INVALID)
    ELSE IF img.pread_ph = "error" THEN ReadFail(LDM_ERROR_IO)
    ELSE IF img.ph_offset # ph_start THEN ReadFail(LDM_ERROR_INVALID)
    ELSE ReadOk(img.privhead)

_read_privhead_mbr(img, secsize) == _read_privhead_off(img, secsize * 6)

_map_gpt_error(e) ==
    IF e = "invalid" THEN LDM_ERROR_INVALID ELSE LDM_ERROR_IO

\* The loop runs pte_array_len times and fetches entry 0 each time.
_read_privhead_gpt(img, secsize) ==
    IF img.gpt_open # "ok" THEN ReadFail(_map_gpt_error(img.gpt_open))
    ELSE IF Len(img.ptes) = 0 THEN ReadFail(LDM_ERROR_NOT_LDM)
    ELSE IF img.gpt_get_pte # "ok" THEN ReadFail(_map_gpt_error(img.gpt_get_pte))
    ELSE IF img.ptes[1].type = LDM_METADATA
    THEN _read_privhead_off(img, img.ptes[1].last_lba * secsize)
    ELSE ReadFail(LDM_ERROR_NOT_LDM)

_read_privhead(img, secsize) ==
    IF img.mbr = "invalid" THEN ReadFail(LDM_ERROR_INVALID)
    ELSE IF img.mbr = "read" THEN ReadFail(LDM_ERROR_IO)
    ELSE IF img.part0_type = MBR_PART_WINDOWS_LDM
    THEN _read_privhead_mbr(img, secsize)
    ELSE IF img.part0_type = MBR_PART_EFI_PROTECTIVE
    THEN _read_privhead_gpt(img, secsize)
    ELSE ReadFail(LDM_ERROR_NOT_LDM)

\* _read_config: on success *config is a buffer the caller must free; on
\* every failure *config is NULL (the read loop frees what it allocated).
_read_config(img, secsize, privhead) ==
    LET config_start == Wrap64(privhead.ldm_config_start * secsize)
        config_size == Wrap64(privhead.ldm_config_size * secsize)
    IN
    IF img.fstat = "error" THEN ReadFail(LDM_ERROR_IO)
    ELSE IF config_start > img.size THEN ReadFail(LDM_ERROR_INVALID)
    ELSE IF Wrap64(config_start + config_size) > img.size
    THEN ReadFail(LDM_ERROR_INVALID)
    ELSE IF config_size > 0 /\ img.pread_config = "eof"
    THEN ReadFail(LDM_ERROR_INVALID)
    ELSE IF config_size > 0 /\ img.pread_config = "error"
    THEN ReadFail(LDM_ERROR_IO)
    ELSE ReadOk(img.config)

\* _find_vmdb: the VMDB is at bitmap[i].start sectors into the config, for
\* the first of the two bitmaps named "config".
_find_vmdb(config, secsize) ==
    LET i == FirstIndex({b \in 1..Len(config.bitmap) :
                            config.bitmap[b].name = "config"}) IN
    IF ~config.toc_magic THEN ReadFail(LDM_ERROR_INVALID)
    ELSE IF i = 0 THEN ReadFail(LDM_ERROR_INVALID)
    ELSE IF config.bitmap[i].start * secsize # config.vmdb_sector * secsize
            \/ ~config.vmdb.magic
    THEN ReadFail(LDM_ERROR_INVALID)
    ELSE ReadOk(config.vmdb)

\* ------------------------------------------------------------------------
\* Where the config is read. The config buffer is config_size bytes
\* (_read_config); _find_vmdb and _parse_vblks take pointers into it and
\* are not told its size.

SizeofTocblock == 104
SizeofVmdb == 197
SizeofVblkHead == 16
SizeofMagic == 4

\* const guint16 vblk_size = be32toh(vmdb->vblk_size);
vblk_size(vmdb) == vmdb.vblk_size % 65536

\* const guint16 vblk_data_size = vblk_size - sizeof(struct _vblk_head);
vblk_data_size(vmdb) == (vblk_size(vmdb) - SizeofVblkHead) % 65536

\* From one entry to the next: vblk += sizeof(struct _vblk_head), then
\* vblk += vblk_data_size.
VblkStride(vmdb) == SizeofVblkHead + vblk_data_size(vmdb)

\* The size of the buffer _read_config allocates.
ConfigSize(privhead, secsize) == Wrap64(privhead.ldm_config_size * secsize)

\* g_malloc(config_size) when ldm_config_start and ldm_config_size pass the
\* two comparisons only because their sum wraps: the request is for more
\* than 2^64 minus the device size, and g_malloc aborts the program.
MallocAborts(img, secsize) ==
    LET config_start == Wrap64(img.privhead.ldm_config_start * secsize)
        config_size == Wrap64(img.privhead.ldm_config_size * secsize)
    IN
    /\ img.fstat = "ok"
    /\ config_start <= img.size
    /\ config_start + config_size >= WordModulus
    /\ Wrap64(config_start + config_size) <= img.size

\* tocblock = config + secsize * 2
TocblockOffset(secsize) == secsize * 2

\* *vmdb = config + be64toh(tocblock->bitmap[i].start) * secsize, 0 when
\* there is no bitmap named "config".
VmdbOffset(cfg, secsize) ==
    LET i == FirstIndex({b \in 1..Len(cfg.bitmap) :
                            cfg.bitmap[b].name = "config"}) IN
    IF i = 0 THEN 0 ELSE cfg.bitmap[i].start * secsize

\* vblk = (void *)vmdb + be32toh(vmdb->vblk_first_offset), then one stride
\* per entry: the offset of the entry after k entries.
VblkOffset(cfg, secsize, k) ==
    VmdbOffset(cfg, secsize) + cfg.vmdb.vblk_first_offset
        + k * VblkStride(cfg.vmdb)

\* The bytes _find_vmdb reads of the config, as pairs <<first, end>>: the
\* magic of TOCBLOCK, then its bitmaps, then the magic of the VMDB.
FindVmdbReads(cfg, secsize) ==
    {<<TocblockOffset(secsize),
       TocblockOffset(secsize)
           + (IF cfg.toc_magic THEN SizeofTocblock ELSE 8)>>}
    \cup
    (IF cfg.toc_magic /\ \E b \in 1..Len(cfg.bitmap) :
                            cfg.bitmap[b].name = "config"
     THEN {<<VmdbOffset(cfg, secsize),
             VmdbOffset(cfg, secsize) + SizeofMagic>>}
     ELSE {})

\* The bytes _parse_vblks reads of the config: the fields of the VMDB, each
\* entry of the stream, and the magic of the entry at which the loop ends.
ParseVblksReads(cfg, secsize) ==
    {<<VmdbOffset(cfg, secsize), VmdbOffset(cfg, secsize) + SizeofVmdb>>}
    \cup
    {<<VblkOffset(cfg, secsize, k - 1), VblkOffset(cfg, secsize, k)>> :
        k \in {j \in 1..Len(cfg.vblks) :
                  \A h \in 1..j : cfg.vblks[h].magic}}
    \cup
    (IF VblkLoop(cfg.vblks, 1, NewDiskGroup(NilUuid), <<>>, FALSE).ok
     THEN LET n == Cardinality({j \in 1..Len(cfg.vblks) :
                                   \A h \in 1..j : cfg.vblks[h].magic})
          IN {<<VblkOffset(cfg, secsize, n),
                VblkOffset(cfg, secsize, n) + SizeofMagic>>}
     ELSE {})

\* Some byte of the ranges is not a byte of a buffer of size bytes.
ReadsOutside(ranges, size) == \E r \in ranges : r[2] > size

\* ------------------------------------------------------------------------
\* The registry. o->priv->disk_groups is [null, arr]: whether the pointer
\* is NULL, and the GArray of disk groups.

\* The outcome of a call: the return value and *err, the registry, what
\* became of the descriptor ("none" | "open" | "closed") and of the config
\* buffer ("NULL" | "allocated" | "freed"), and the group the lookup found
\* (0 for none).
CallResult(ret, err, disk_groups, fd, config, dg) ==
    [ret |-> ret, err |-> err, disk_groups |-> disk_groups, fd |-> fd,
     config |-> config, dg |-> dg]

\* A lookup that stops after the first group of the registry.
FindDiskGroupAtHead(arr, disk_group_guid) ==
    IF arr # <<>> /\ uuid_compare(disk_group_guid, arr[1].guid) = 0 THEN 1 ELSE 0

\* The lookup of the disk group: the loop has no break, so the last group
\* with the GUID is the one found.
FindDiskGroup(arr, disk_group_guid) ==
    LastIndex({c \in 1..Len(arr) :
                  uuid_compare(disk_group_guid, arr[c].guid) = 0})

\* The same without the comparison of the GUIDs.
SetDiskDeviceAll(dg, disk_guid, path, privhead) ==
    [dg EXCEPT !.disks = [i \in 1..Len(dg.disks) |->
        IF i > dg.n_disks THEN dg.disks[i]
        ELSE [dg.disks[i] EXCEPT
                 !.device = path,
                 !.data_start = privhead.logical_disk_start,
                 !.data_size = privhead.logical_disk_size,
                 !.metadata_start = privhead.ldm_config_start,
                 !.metadata_size = privhead.ldm_config_size]]]

\* "Find the disk VBLK for the current disk and add additional information
\* from PRIVHEAD": the first of the n_disks disks with the GUID.
SetDiskDevice(dg, disk_guid, path, privhead) ==
    LET i == FirstIndex({k \in 1..dg.n_disks :
                            uuid_compare(disk_guid, dg.disks[k].guid) = 0})
    IN
    IF i = 0 THEN dg
    ELSE [dg EXCEPT !.disks[i] =
             [@ EXCEPT !.device = path,
                       !.data_start = privhead.logical_disk_start,
                       !.data_size = privhead.logical_disk_size,
                       !.metadata_start = privhead.ldm_config_start,
                       !.metadata_size = privhead.ldm_config_size]]

\* ldm_add_fd when the lookup found no group: the group is built from the
\* VBLK stream and appended; a stream that does not parse drops it.
AddNewDiskGroup(disk_groups, disk_guid, disk_group_guid, path, privhead, vmdb, vblks) ==
    Eval(_parse_vblks(vmdb, vblks, NewDiskGroup(disk_group_guid)),
         LAMBDA parsed :
    IF ~parsed.ok
    THEN CallResult(FALSE, parsed.err, disk_groups, "closed", "freed", 0)
    ELSE CallResult(TRUE, NO_ERROR,
             [disk_groups EXCEPT !.arr =
                 Append(@, SetDiskDevice(parsed.dg, disk_guid, path, privhead))],
             "closed", "freed", 0))

\* The same with the device recorded before the sequence is compared.
AddToDiskGroupDeviceFirst(disk_groups, found, disk_guid, path, privhead, vmdb) ==
    CallResult(vmdb.committed_seq = disk_groups.arr[found].sequence,
        IF vmdb.committed_seq # disk_groups.arr[found].sequence
        THEN LDM_ERROR_INCONSISTENT ELSE NO_ERROR,
        [disk_groups EXCEPT !.arr[found] =
            SetDiskDevice(@, disk_guid, path, privhead)],
        "closed", "freed", found)

\* The same without the comparison of the sequences.
AddToDiskGroupAnySequence(disk_groups, found, disk_guid, path, privhead, vmdb) ==
    CallResult(TRUE, NO_ERROR,
        [disk_groups EXCEPT !.arr[found] =
            SetDiskDevice(@, disk_guid, path, privhead)],
        "closed", "freed", found)

\* The same without the disk's fields from PRIVHEAD.
AddToDiskGroupNoDevice(disk_groups, found, disk_guid, path, privhead, vmdb) ==
    IF vmdb.committed_seq # disk_groups.arr[found].sequence
    THEN CallResult(FALSE, LDM_ERROR_INCONSISTENT, disk_groups,
                    "closed", "freed", found)
    ELSE CallResult(TRUE, NO_ERROR, disk_groups, "closed", "freed", found)

\* ldm_add_fd when the lookup found the group at index found: the disk must
\* be consistent with the other disks of the group.
AddToDiskGroup(disk_groups, found, disk_guid, path, privhead, vmdb) ==
    IF vmdb.committed_seq # disk_groups.arr[found].sequence
    THEN CallResult(FALSE, LDM_ERROR_INCONSISTENT, disk_groups,
                    "closed", "freed", found)
    ELSE CallResult(TRUE, NO_ERROR,
             [disk_groups EXCEPT !.arr[found] =
                 SetDiskDevice(@, disk_guid, path, privhead)],
             "closed", "freed", found)

\* ldm_add_fd from the point where PRIVHEAD, the config and the VMDB are
\* read: config is allocated, every exit frees it and closes fd.
AddToRegistry(disk_groups, path, privhead, vmdb, vblks) ==
    Eval(<<uuid_parse(privhead.disk_guid),
           uuid_parse(privhead.disk_group_guid)>>,
         LAMBDA u :
    IF u[1].rc = -1 \/ u[2].rc = -1
    THEN CallResult(FALSE, LDM_ERROR_INVALID, disk_groups, "closed", "freed", 0)
    ELSE
    Eval(FindDiskGroup(disk_groups.arr, u[2].uu), LAMBDA found :
    IF found = 0
    THEN AddNewDiskGroup(disk_groups, u[1].uu, u[2].uu, path, privhead,
                         vmdb, vblks)
    ELSE AddToDiskGroup(disk_groups, found, u[1].uu, path, privhead, vmdb)))

\* ldm_add_fd(o, fd, secsize, path, err)
ldm_add_fd(disk_groups, secsize, path, img) ==
    IF disk_groups.null
    THEN CallResult(TRUE, NO_ERROR, disk_groups, "open", "NULL", 0)
    ELSE
    Eval(_read_privhead(img, secsize), LAMBDA privhead :
    IF ~privhead.ok
    THEN CallResult(FALSE, privhead.err, disk_groups, "closed", "NULL", 0)
    ELSE
    Eval(_read_config(img, secsize, privhead.val), LAMBDA config :
    IF ~config.ok
    THEN CallResult(FALSE, config.err, disk_groups, "closed", "NULL", 0)
    ELSE
    Eval(_find_vmdb(config.val, secsize), LAMBDA vmdb :
    IF ~vmdb.ok
    THEN CallResult(FALSE, vmdb.err, disk_groups, "closed", "freed", 0)
    ELSE AddToRegistry(disk_groups, path, privhead.val, vmdb.val,
                       config.val.vblks))))

\* ldm_add(o, path, err): open, the sector size (512 when the ioctl
\* fails), ldm_add_fd.
ldm_add(disk_groups, path, img) ==
    IF img.open = "error"
    THEN CallResult(FALSE, LDM_ERROR_IO, disk_groups, "none", "NULL", 0)
    ELSE ldm_add_fd(disk_groups, IF img.blkssz = -1 THEN 512 ELSE img.blkssz,
                    path, img)

\* ldm_new
ldm_new == [null |-> FALSE, arr |-> <<>>]

\* ldm_dispose
ldm_dispose(disk_groups) == [null |-> TRUE, arr |-> <<>>]

\* ------------------------------------------------------------------------
\* Device-mapper tables. A string the generator builds is a text: a
\* sequence of words, each a sequence of characters (a device path and a
\* fixed piece of a format are one character each). Consecutive words are
\* separated by one space in the C string; the word "\n" ends a line. A
\* name of a record is a word.

Digits == <<"0", "1", "2", "3", "4", "5", "6", "7", "8", "9">>
HexDigits == Digits \o <<"A", "B", "C", "D", "E", "F">>

\* "%lu" and "%u" of printf.
RECURSIVE Decimal(_)
Decimal(n) ==
    IF n < 10 THEN <<Digits[n + 1]>>
    ELSE Decimal(n \div 10) \o <<Digits[(n % 10) + 1]>>

\* unsigned 32-bit arithmetic, on the word of the model.
Wrap32(x) == x % WordModulus

\* The characters g_uri_escape_string leaves alone whatever it is asked:
\* letters, digits and "-", ".", "_", "~".
Unreserved ==
    {"a", "b", "c", "d", "e", "f", "g", "h", "i", "j", "k", "l", "m", "n",
     "o", "p", "q", "r", "s", "t", "u", "v", "w", "x", "y", "z",
     "A", "B", "C", "D", "E", "F", "G", "H", "I", "J", "K", "L", "M", "N",
     "O", "P", "Q", "R", "S", "T", "U", "V", "W", "X", "Y", "Z",
     "0", "1", "2", "3", "4", "5", "6", "7", "8", "9", "-", ".", "_", "~"}

G_URI_RESERVED_CHARS_ALLOWED_IN_PATH_ELEMENT ==
    {"!", "$", "&", "'", "(", ")", "*", "+", ",", ";", "=", ":", "@"}

\* The ASCII code of the other characters a name of the model holds.
CharCode(c) ==
    CASE c = " " -> 32 [] c = "#" -> 35 [] c = "%" -> 37 [] c = "/" -> 47

\* g_uri_escape_string(unescaped, reserved_chars_allowed, FALSE): every
\* other character becomes "%" and its code as two hexadecimal digits.
RECURSIVE g_uri_escape_string(_, _)
g_uri_escape_string(unescaped, reserved_chars_allowed) ==
    IF unescaped = <<>> THEN <<>>
    ELSE (IF Head(unescaped) \in Unreserved \cup reserved_chars_allowed
          THEN <<Head(unescaped)>>
          ELSE <<"%", HexDigits[(CharCode(Head(unescaped)) \div 16) + 1],
                 HexDigits[(CharCode(Head(unescaped)) % 16) + 1]>>)
         \o g_uri_escape_string(Tail(unescaped), reserved_chars_allowed)

\* An LDMDMTable. obj tells the objects of one call apart: 0 is the table
\* of the volume, i the leaf made for the i-th child.
NewDMTable(obj, name, table) == [obj |-> obj, name |-> name, table |-> table]

\* g_set_error(err, ...): *err holds the code when the caller gave a
\* location (errp), nothing is stored otherwise.
g_set_error(errp, code) == IF errp THEN code ELSE NO_ERROR

\* The outcome of a generator: ok is its return value (the table for
\* _generate_dm_table_part), err is *err, ret the array.
GenOk(ret) == [ok |-> TRUE, err |-> NO_ERROR, ret |-> ret]
GenFail(e) == [ok |-> FALSE, err |-> e, ret |-> <<>>]

\* g_string_append to the table of object obj of the array.
g_string_append(ret, obj, words) ==
    [k \in 1..Len(ret) |->
        IF ret[k].obj = obj THEN [ret[k] EXCEPT !.table = @ \o words]
        ELSE ret[k]]

\* The same, with the value left out.
g_array_drop_leaf(a, v) == a

\* The same, with the value put behind the others.
g_array_append_leaf(a, v) == Append(a, v)

\* g_array_prepend_val(a, v)
g_array_prepend_val(a, v) == <<v>> \o a

\* The table of the partition part of group dg, as object obj.
_generate_dm_table_part(dg, part, obj, errp) ==
    LET disk == dg.disks[part.disk] IN
    IF disk.device = NULL THEN GenFail(g_set_error(errp, LDM_ERROR_MISSING_DISK))
    ELSE GenOk(NewDMTable(obj,
            <<"l", "d", "m", "_">>
            \o g_uri_escape_string(disk.dgname,
                   G_URI_RESERVED_CHARS_ALLOWED_IN_PATH_ELEMENT)
            \o <<"_">>
            \o g_uri_escape_string(part.name,
                   G_URI_RESERVED_CHARS_ALLOWED_IN_PATH_ELEMENT),
            <<Decimal(0), Decimal(part.size), <<"linear">>, <<disk.device>>,
              Decimal(Wrap64(disk.data_start + part.start)), <<"\n">>>>))

\* No words at all.
NoSlot == <<>>

\* " - -": the words that take the place of a leg whose disk is missing.
MissingSlot == <<<<"-">>, <<"-">>>>

\* "ldm_%s_%s" of the volume's group name and name, as they are.
VolumeTableName(vol) == <<"l", "d", "m", "_">> \o vol.dgname \o <<"_">> \o vol.name

\* The loop of _generate_dm_tables_mirrored from component i on.
RECURSIVE MirroredLoop(_, _, _, _, _, _)
MirroredLoop(dg, vol, i, ret, found, errp) ==
    IF i > Len(vol.comps)
    THEN IF found = 0 THEN GenFail(g_set_error(errp, LDM_ERROR_MISSING_DISK))
         ELSE GenOk(g_string_append(ret, 0, <<<<"\n">>>>))
    ELSE IF \/ dg.comps[vol.comps[i]].type # LDM_COMPONENT_TYPE_SPANNED
            \/ Len(dg.comps[vol.comps[i]].parts) # 1
    THEN GenFail(g_set_error(errp, LDM_ERROR_NOTSUPPORTED))
    ELSE
    Eval(_generate_dm_table_part(dg, dg.parts[dg.comps[vol.comps[i]].parts[1]],
                                 i, errp),
         LAMBDA chunk :
    IF ~chunk.ok
    THEN IF errp /\ chunk.err = LDM_ERROR_MISSING_DISK
         THEN Eval(g_string_append(ret, 0, MissingSlot),
                   LAMBDA r : MirroredLoop(dg, vol, i + 1, r, found, errp))
         ELSE GenFail(chunk.err)
    ELSE Eval(g_string_append(g_array_prepend_val(ret, chunk.ret), 0,
                  <<<<"-">>, <<"/dev/mapper/">> \o chunk.ret.name>>),
              LAMBDA r : MirroredLoop(dg, vol, i + 1, r, found + 1, errp)))

_generate_dm_tables_mirrored(dg, ret, vol, errp) ==
    MirroredLoop(dg, vol, 1,
        Append(ret, NewDMTable(0, VolumeTableName(vol),
            <<Decimal(0), Decimal(vol.size), <<"raid">>, <<"raid1">>,
              Decimal(1), Decimal(128), Decimal(Len(vol.comps))>>)),
        0, errp)

\* A line with the length of the segment where its end is printed.
SpannedLineLength(pos, part, disk) ==
    <<Decimal(pos), Decimal(part.size), <<"linear">>, <<disk.device>>,
      Decimal(Wrap64(disk.data_start + part.start)), <<"\n">>>>

\* "%lu %lu linear %s %lu\n": the line of the segment that starts at pos.
SpannedLine(pos, part, disk) ==
    <<Decimal(pos), Decimal(Wrap64(pos + part.size)), <<"linear">>,
      <<disk.device>>, Decimal(Wrap64(disk.data_start + part.start)),
      <<"\n">>>>

\* The same loop with the offset of a partition compared before its disk
\* is looked at.
RECURSIVE SpannedPartsLoopOffsetFirst(_, _, _, _, _, _)
SpannedPartsLoopOffsetFirst(dg, comp, i, ret, pos, errp) ==
    IF i > Len(comp.parts) THEN GenOk(ret)
    ELSE IF pos # dg.parts[comp.parts[i]].vol_offset
    THEN GenFail(g_set_error(errp, LDM_ERROR_INVALID))
    ELSE IF dg.disks[dg.parts[comp.parts[i]].disk].device = NULL
    THEN GenFail(g_set_error(errp, LDM_ERROR_MISSING_DISK))
    ELSE
    Eval(dg.parts[comp.parts[i]], LAMBDA part :
    Eval(g_string_append(ret, 0, SpannedLine(pos, part, dg.disks[part.disk])),
         LAMBDA r : SpannedPartsLoopOffsetFirst(dg, comp, i + 1, r,
                                                Wrap64(pos + part.size), errp)))

\* The loop of _generate_dm_tables_spanned from partition i on.
RECURSIVE SpannedPartsLoop(_, _, _, _, _, _)
SpannedPartsLoop(dg, comp, i, ret, pos, errp) ==
    IF i > Len(comp.parts) THEN GenOk(ret)
    ELSE IF dg.disks[dg.parts[comp.parts[i]].disk].device = NULL
    THEN GenFail(g_set_error(errp, LDM_ERROR_MISSING_DISK))
    ELSE IF pos # dg.parts[comp.parts[i]].vol_offset
    THEN GenFail(g_set_error(errp, LDM_ERROR_INVALID))
    ELSE
    Eval(dg.parts[comp.parts[i]], LAMBDA part :
    Eval(g_string_append(ret, 0, SpannedLine(pos, part, dg.disks[part.disk])),
         LAMBDA r : SpannedPartsLoop(dg, comp, i + 1, r,
                                     Wrap64(pos + part.size), errp)))

_generate_dm_tables_spanned(dg, ret, vol, comp, errp) ==
    SpannedPartsLoop(dg, comp, 1,
        Append(ret, NewDMTable(0, VolumeTableName(vol), <<>>)), 0, errp)

\* The loop of _generate_dm_tables_striped from partition i on.
RECURSIVE StripedLoop(_, _, _, _, _)
StripedLoop(dg, comp, i, ret, errp) ==
    IF i > Len(comp.parts) THEN GenOk(g_string_append(ret, 0, <<<<"\n">>>>))
    ELSE IF dg.disks[dg.parts[comp.parts[i]].disk].device = NULL
    THEN GenFail(g_set_error(errp, LDM_ERROR_MISSING_DISK))
    ELSE
    Eval(dg.parts[comp.parts[i]], LAMBDA part :
    Eval(g_string_append(ret, 0,
            <<<<dg.disks[part.disk].device>>,
              Decimal(Wrap64(dg.disks[part.disk].data_start + part.start))>>),
         LAMBDA r : StripedLoop(dg, comp, i + 1, r, errp)))

_generate_dm_tables_striped(dg, ret, vol, comp, errp) ==
    StripedLoop(dg, comp, 1,
        Append(ret, NewDMTable(0, VolumeTableName(vol),
            <<Decimal(0), Decimal(vol.size), <<"striped">>,
              Decimal(comp.n_columns), Decimal(comp.stripe_size)>>)),
        errp)

\* The loop of _generate_dm_tables_raid5 from partition i on; found is an
\* int, comp->n_columns - 1 an unsigned int, compared as unsigned.
RECURSIVE Raid5Loop(_, _, _, _, _, _)
Raid5Loop(dg, comp, i, ret, found, errp) ==
    IF i > Len(comp.parts)
    THEN IF Wrap32(found) < Wrap32(comp.n_columns - 1)
         THEN GenFail(g_set_error(errp, LDM_ERROR_MISSING_DISK))
         ELSE GenOk(g_string_append(ret, 0, <<<<"\n">>>>))
    ELSE
    Eval(_generate_dm_table_part(dg, dg.parts[comp.parts[i]], i, errp),
         LAMBDA chunk :
    IF ~chunk.ok
    THEN IF errp /\ chunk.err = LDM_ERROR_MISSING_DISK
         THEN Eval(g_string_append(ret, 0, MissingSlot),
                   LAMBDA r : Raid5Loop(dg, comp, i + 1, r, found, errp))
         ELSE GenFail(chunk.err)
    ELSE Eval(g_string_append(g_array_prepend_val(ret, chunk.ret), 0,
                  <<<<"-">>, <<"/dev/mapper/">> \o chunk.ret.name>>),
              LAMBDA r : Raid5Loop(dg, comp, i + 1, r, found + 1, errp)))

\* The same without the test of the component's type.
Raid5OfAnyComponent(dg, ret, vol, errp) ==
    IF Len(vol.comps) # 1 THEN GenFail(g_set_error(errp, LDM_ERROR_NOTSUPPORTED))
    ELSE Raid5Loop(dg, dg.comps[vol.comps[1]], 1,
            Append(ret, NewDMTable(0, VolumeTableName(vol),
                <<Decimal(0), Decimal(vol.size), <<"raid">>, <<"raid5_ls">>,
                  Decimal(1), Decimal(dg.comps[vol.comps[1]].stripe_size),
                  Decimal(dg.comps[vol.comps[1]].n_columns)>>)),
            0, errp)

\* _generate_dm_tables_raid5(ret, vol, err)

_generate_dm_tables_raid5(dg, ret, vol, errp) ==
    IF Len(vol.comps) # 1 THEN GenFail(g_set_error(errp, LDM_ERROR_NOTSUPPORTED))
    ELSE IF dg.comps[vol.comps[1]].type # LDM_COMPONENT_TYPE_RAID
    THEN GenFail(g_set_error(errp, LDM_ERROR_NOTSUPPORTED))
    ELSE Raid5Loop(dg, dg.comps[vol.comps[1]], 1,
            Append(ret, NewDMTable(0, VolumeTableName(vol),
                <<Decimal(0), Decimal(vol.size), <<"raid">>, <<"raid5_ls">>,
                  Decimal(1), Decimal(dg.comps[vol.comps[1]].stripe_size),
                  Decimal(dg.comps[vol.comps[1]].n_columns)>>)),
            0, errp)

\* const LDMComponent * const comp_o = g_array_index(vol->comps, ..., 0)
\* on a GEN volume whose array of components is empty.
ReadsPastComps(vol) ==
    vol.type = LDM_VOLUME_TYPE_GEN /\ Len(vol.comps) = 0

\* The switch of ldm_volume_generate_dm_tables on a volume with at least
\* one component when its type is GEN.
GenerateByType(dg, vol, errp) ==
    IF vol.type = LDM_VOLUME_TYPE_GEN
    THEN IF Len(vol.comps) > 1 THEN _generate_dm_tables_mirrored(dg, <<>>, vol, errp)
         ELSE IF dg.comps[vol.comps[1]].type = LDM_COMPONENT_TYPE_SPANNED
         THEN _generate_dm_tables_spanned(dg, <<>>, vol, dg.comps[vol.comps[1]], errp)
         ELSE IF dg.comps[vol.comps[1]].type = LDM_COMPONENT_TYPE_STRIPED
         THEN _generate_dm_tables_striped(dg, <<>>, vol, dg.comps[vol.comps[1]], errp)
         ELSE GenFail(g_set_error(errp, LDM_ERROR_NOTSUPPORTED))
    ELSE _generate_dm_tables_raid5(dg, <<>>, vol, errp)

\* ldm_volume_generate_dm_tables(o, err): the array, or NULL (null) after
\* g_array_unref on the error path.
ldm_volume_generate_dm_tables(dg, vol, errp) ==
    Eval(GenerateByType(dg, vol, errp), LAMBDA r :
    IF r.ok THEN [null |-> FALSE, arr |-> r.ret, err |-> r.err]
    ELSE [null |-> TRUE, arr |-> <<>>, err |-> r.err])

\* ------------------------------------------------------------------------
\* Building inputs: records, entries, devices

\* Record type bytes: revision in the high nibble, kind in the low one.
TypeByte(revision, kind) == revision * 16 + kind

VolumeRecord(revision, id, name, type, n_comps, size) ==
    [flags |-> 0, type |-> TypeByte(revision, 1), nfrags |-> 1,
     body |-> [id |-> VarInt(id), name |-> name, type |-> type, flags |-> 0,
               n_comps |-> VarInt(n_comps), size |-> VarInt(size),
               part_type |-> 7, id1 |-> "", id2 |-> "", size2 |-> <<0>>,
               hint |-> ""]]

\* A component record; the striping fields are present (flag 0x10) for
\* STRIPED and RAID components.
ComponentRecord(revision, id, name, type, n_parts, parent_id) ==
    [flags |-> IF type = LDM_COMPONENT_TYPE_SPANNED THEN 0 ELSE 16,
     type |-> TypeByte(revision, 2), nfrags |-> 1,
     body |-> [id |-> VarInt(id), name |-> name, type |-> type,
               n_parts |-> VarInt(n_parts), parent_id |-> VarInt(parent_id),
               stripe_size |-> VarInt(128), n_columns |-> VarInt(n_parts)]]

\* A partition record; index -1 stands for a record without the index
\* field (flag 0x08 clear).
PartitionRecord(revision, id, name, start, vol_offset, size, parent_id, disk_id, index) ==
    [flags |-> IF index = -1 THEN 0 ELSE 8,
     type |-> TypeByte(revision, 3), nfrags |-> 1,
     body |-> [id |-> VarInt(id), name |-> name, start |-> start,
               vol_offset |-> vol_offset, size |-> VarInt(size),
               parent_id |-> VarInt(parent_id), disk_id |-> VarInt(disk_id),
               index |-> IF index = -1 THEN <<0>> ELSE VarInt(index)]]

\* A disk record: revision 3 has the GUID as text, revision 4 as bytes.
DiskRecord(revision, id, name, guid_text) ==
    [flags |-> 0, type |-> TypeByte(revision, 4), nfrags |-> 1,
     body |-> [id |-> VarInt(id), name |-> name, guid_text |-> guid_text,
               guid_raw |-> uuid_parse_value(guid_text)]]

DiskGroupRecord(revision, id, name) ==
    [flags |-> 0, type |-> TypeByte(revision, 5), nfrags |-> 1,
     body |-> [id |-> VarInt(id), name |-> name]]

\* A VBLK entry that holds a whole record.
Entry(record_id, rec) ==
    [magic |-> TRUE, record_id |-> record_id, entry |-> 0,
     entries_total |-> 1, data |-> [rec |-> rec, frag |-> 0]]

\* Entry number entry of the entries_total entries of a spanned record.
SpannedEntry(record_id, rec, entry, entries_total) ==
    [magic |-> TRUE, record_id |-> record_id, entry |-> entry,
     entries_total |-> entries_total,
     data |-> [rec |-> [rec EXCEPT !.nfrags = entries_total], frag |-> entry]]

\* One entry per record, record ids counting from 1.
Entries(recs) == [i \in 1..Len(recs) |-> Entry(i, recs[i])]

\* The VMDB header that commits the records of vblks at sequence seq:
\* entries of 128 bytes from 512 bytes after the VMDB, the counts those of
\* the stream, plus delta (a record of four).
CountKind(vblks, kind) ==
    Cardinality({i \in 1..Len(vblks) :
                    /\ vblks[i].entry = 0
                    /\ vblks[i].data.rec.type % 16 = kind})

Vmdb(seq, vblks, delta) ==
    [magic |-> TRUE, vblk_size |-> 128, vblk_first_offset |-> 512,
     committed_seq |-> seq,
     n_committed_vblks_disk |-> CountKind(vblks, 4) + delta.disk,
     n_committed_vblks_comp |-> CountKind(vblks, 2) + delta.comp,
     n_committed_vblks_part |-> CountKind(vblks, 3) + delta.part,
     n_committed_vblks_vol |-> CountKind(vblks, 1) + delta.vol]

NoDelta == [disk |-> 0, comp |-> 0, part |-> 0, vol |-> 0]

\* A well-formed MBR dynamic disk of 100 sectors of 512 bytes: PRIVHEAD in
\* sector 6, the config area in the last sectors, TOCBLOCK with a "config"
\* bitmap, the VMDB where the bitmap says. geom varies the four locators.
Device(disk_guid, disk_group_guid, geom, vmdb, vblks) ==
    [open |-> "ok", blkssz |-> 512, mbr |-> "ok",
     part0_type |-> MBR_PART_WINDOWS_LDM,
     gpt_open |-> "ok", gpt_get_pte |-> "ok", ptes |-> <<>>,
     pread_ph |-> "ok", ph_offset |-> 3072,
     privhead |-> [disk_guid |-> disk_guid,
                   disk_group_guid |-> disk_group_guid,
                   logical_disk_start |-> geom,
                   logical_disk_size |-> 80 + geom,
                   ldm_config_start |-> 88 + geom,
                   ldm_config_size |-> 8],
     fstat |-> "ok", size |-> 51200, pread_config |-> "ok",
     config |-> [toc_magic |-> TRUE,
                 bitmap |-> <<[name |-> "config", start |-> 3],
                              [name |-> "log", start |-> 5]>>,
                 vmdb_sector |-> 3, vmdb |-> vmdb, vblks |-> vblks]]

\* ------------------------------------------------------------------------
\* The devices of the registry specification

\* Bounds: add calls per behaviour, committed sequence numbers.
MaxCalls == 3
MaxSeq == 2

Paths == {"/dev/sdb", "/dev/sdc"}
DiskGuids == {"uuid-a", "uuid-b"}
DiskGroupGuids == {"uuid-g1", "uuid-g2"}

\* The locators PRIVHEAD carries on the disk with this GUID.
GeomOf(disk_guid) == IF disk_guid = "uuid-a" THEN 1 ELSE 2

\* A group of two disks with one spanned volume over both.
GoodRecords ==
    <<DiskGroupRecord(4, 1, "dg1"),
      DiskRecord(4, 1, "Disk1", "uuid-a"),
      DiskRecord(3, 2, "Disk2", "uuid-b"),
      VolumeRecord(5, 1, "Volume1", LDM_VOLUME_TYPE_GEN, 1, 200),
      ComponentRecord(3, 1, "Volume1-01", LDM_COMPONENT_TYPE_SPANNED, 2, 1),
      PartitionRecord(3, 1, "Disk1-01", 10, 0, 100, 1, 1, 0),
      PartitionRecord(3, 2, "Disk2-01", 10, 100, 100, 1, 2, 1)>>

StreamKinds == {"good", "unsupported", "internal", "orphan"}

\* The stream of each kind: the good one, one with a volume record of
\* revision 4, one with a var-int nine bytes wide, one with a partition
\* on a disk id no record has.
StreamOf(kind) ==
    CASE kind = "good" -> Entries(GoodRecords)
      [] kind = "unsupported" ->
            Entries([GoodRecords EXCEPT ![4] =
                VolumeRecord(4, 1, "Volume1", LDM_VOLUME_TYPE_GEN, 1, 200)])
      [] kind = "internal" ->
            Entries([GoodRecords EXCEPT ![6].body.size = WideVarInt])
      [] kind = "orphan" ->
            Entries([GoodRecords EXCEPT ![7] =
                PartitionRecord(3, 2, "Disk2-01", 10, 100, 100, 1, 9, 1)])

GroupDevice(disk_guid, disk_group_guid, seq, kind) ==
    Device(disk_guid, disk_group_guid, GeomOf(disk_guid),
           Vmdb(seq, StreamOf(kind), NoDelta), StreamOf(kind))

\* Every disk of every group at every sequence with the good stream, and
\* disk uuid-a of group uuid-g1 with each of the others.
GroupDevices ==
    {GroupDevice(d, g, seq, "good") :
        d \in DiskGuids, g \in DiskGroupGuids, seq \in 1..MaxSeq}
    \cup
    {GroupDevice("uuid-a", "uuid-g1", seq, kind) :
        seq \in 1..MaxSeq, kind \in StreamKinds}

\* Disk uuid-a of group uuid-g1 with one thing different: a host call that
\* fails, a signature that is missing, a locator or a GUID that is wrong,
\* or a GPT layout.
BaseDevice == GroupDevice("uuid-a", "uuid-g1", 1, "good")

GptPte(type) == <<[type |-> type, last_lba |-> 6]>>

VariantDevices ==
    {[BaseDevice EXCEPT !.open = "error"],
     [BaseDevice EXCEPT !.blkssz = -1],
     [BaseDevice EXCEPT !.mbr = "invalid"],
     [BaseDevice EXCEPT !.mbr = "read"],
     [BaseDevice EXCEPT !.part0_type = "MBR_PART_LINUX"],
     [BaseDevice EXCEPT !.pread_ph = "eof"],
     [BaseDevice EXCEPT !.pread_ph = "error"],
     [BaseDevice EXCEPT !.ph_offset = 0],
     [BaseDevice EXCEPT !.privhead.disk_guid = "not-a-uuid"],
     [BaseDevice EXCEPT !.privhead.disk_group_guid = "not-a-uuid"],
     [BaseDevice EXCEPT !.fstat = "error"],
     [BaseDevice EXCEPT !.privhead.ldm_config_start = 101],
     [BaseDevice EXCEPT !.privhead.ldm_config_size = 20],
     [BaseDevice EXCEPT !.pread_config = "eof"],
     [BaseDevice EXCEPT !.pread_config = "error"],
     [BaseDevice EXCEPT !.config.toc_magic = FALSE],
     [BaseDevice EXCEPT !.config.bitmap[1].name = "bitmap"],
     [BaseDevice EXCEPT !.config.bitmap[1].start = 4],
     [BaseDevice EXCEPT !.config.vmdb.magic = FALSE]}
    \cup
    {[BaseDevice EXCEPT !.part0_type = MBR_PART_EFI_PROTECTIVE,
                        !.gpt_open = o, !.gpt_get_pte = p, !.ptes = e] :
        o \in {"ok", "invalid", "read"}, p \in {"ok", "read"},
        e \in {<<>>, GptPte(LDM_METADATA), GptPte("other")}}

\* ------------------------------------------------------------------------
\* State

VARIABLES
    disk_groups,    \* o->priv->disk_groups: [null, arr]
    op,             \* the last operation: "ldm_new", "ldm_add", "ldm_dispose",
                    \* "ldm_volume_generate_dm_tables"
    arg,            \* the path and the device of the last ldm_add, or the
                    \* group, the volume and errp of the last generation
    ret,            \* what the last ldm_add returned
    err,            \* the error the last call set, NO_ERROR if none
    fd,             \* the descriptor of the last ldm_add at its return
    config,         \* the config buffer of the last ldm_add at its return
    dg,             \* the group the last ldm_add found in the registry
    n_calls,        \* the number of ldm_add calls so far
    calls,          \* the arguments of the ldm_add calls so far, when kept
    tables          \* what the last ldm_volume_generate_dm_tables returned

vars == <<disk_groups, op, arg, ret, err, fd, config, dg, n_calls, calls, tables>>

Init ==
    /\ disk_groups = ldm_new
    /\ op = "ldm_new"
    /\ arg = [path |-> NULL, img |-> BaseDevice]
    /\ ret = TRUE
    /\ err = NO_ERROR
    /\ fd = "none"
    /\ config = "NULL"
    /\ dg = 0
    /\ n_calls = 0
    /\ calls = <<>>
    /\ tables = [null |-> TRUE, arr |-> <<>>]

\* ldm_add(o, path, &err) on the device img.
Add(path, img) ==
    \E r \in {ldm_add(disk_groups, path, img)} :
    /\ disk_groups' = r.disk_groups
    /\ op' = "ldm_add"
    /\ arg' = [path |-> path, img |-> img]
    /\ ret' = r.ret
    /\ err' = r.err
    /\ fd' = r.fd
    /\ config' = r.config
    /\ dg' = r.dg
    /\ n_calls' = n_calls + 1
    /\ UNCHANGED tables

\* g_object_run_dispose(o) or the last g_object_unref(o).
Dispose ==
    /\ disk_groups' = ldm_dispose(disk_groups)
    /\ op' = "ldm_dispose"
    /\ UNCHANGED <<arg, ret, err, fd, config, dg, n_calls, calls, tables>>

\* ldm_add on a disk of a group, at one of the paths.
AddDevice ==
    /\ n_calls < MaxCalls
    /\ \E path \in Paths, img \in GroupDevices : Add(path, img)
    /\ UNCHANGED calls

\* ldm_add on one of the variants of the base device.
AddVariant ==
    /\ n_calls < MaxCalls
    /\ \E img \in VariantDevices : Add("/dev/sdb", img)
    /\ UNCHANGED calls

Next == AddDevice \/ AddVariant \/ Dispose

Spec == Init /\ [][Next]_vars

\* ------------------------------------------------------------------------
\* The devices of the resolver specification: disk uuid-a of group uuid-g1
\* at sequence 1, with a stream that varies the partition indices, the
\* links of the partitions, or the counts.

\* Bound: the largest partition index of a stream.
MaxIndex == 2

\* -1 stands for a partition record without the index field.
IndexChoices == {-1} \cup (0..MaxIndex)

\* The ids a partition names: 9 is an id no record has.
DiskIds == {1, 2, 9}
CompIds == {1, 2, 9}

DiskRecords ==
    <<DiskGroupRecord(4, 1, "dg1"),
      DiskRecord(4, 1, "Disk1", "uuid-a"),
      DiskRecord(3, 2, "Disk2", "uuid-b")>>

\* One component of three partitions, with the indices given.
OrderRecords(i1, i2, i3) ==
    DiskRecords \o
    <<VolumeRecord(5, 1, "Volume1", LDM_VOLUME_TYPE_GEN, 1, 300),
      ComponentRecord(3, 1, "Volume1-01", LDM_COMPONENT_TYPE_SPANNED, 3, 1),
      PartitionRecord(3, 1, "Disk1-01", 10, 0, 100, 1, 1, i1),
      PartitionRecord(3, 2, "Disk2-01", 10, 100, 100, 1, 2, i2),
      PartitionRecord(3, 3, "Disk1-02", 110, 200, 100, 1, 1, i3)>>

\* Two components and two partitions, each partition on the disk and in
\* the component given; a component declares the partitions that name it.
LinkRecords(d1, c1, d2, c2) ==
    LET n_parts(c) == (IF c1 = c THEN 1 ELSE 0) + (IF c2 = c THEN 1 ELSE 0) IN
    DiskRecords \o
    <<VolumeRecord(5, 1, "Volume1", LDM_VOLUME_TYPE_GEN, 2, 100),
      ComponentRecord(3, 1, "Volume1-01", LDM_COMPONENT_TYPE_SPANNED,
                      n_parts(1), 1),
      ComponentRecord(3, 2, "Volume1-02", LDM_COMPONENT_TYPE_SPANNED,
                      n_parts(2), 1),
      PartitionRecord(3, 1, "Disk1-01", 10, 0, 100, c1, d1, 0),
      PartitionRecord(3, 2, "Disk2-01", 10, 0, 100, c2, d2, 1)>>

\* The records of GoodRecords with the child counts given.
CountRecords(n_parts, n_comps) ==
    [GoodRecords EXCEPT ![4].body.n_comps = VarInt(n_comps),
                        ![5].body.n_parts = VarInt(n_parts)]

\* The VMDB counts: those of the stream, or one of them off by one.
Deltas ==
    {NoDelta} \cup
    {[NoDelta EXCEPT ![k] = d] : k \in {"disk", "comp", "part", "vol"},
                                 d \in {-1, 1}}

ResolveDevice(recs, delta) ==
    Device("uuid-a", "uuid-g1", GeomOf("uuid-a"),
           Vmdb(1, Entries(recs), delta), Entries(recs))

ResolveDevices ==
    {ResolveDevice(OrderRecords(i1, i2, i3), NoDelta) :
        i1 \in IndexChoices, i2 \in IndexChoices, i3 \in IndexChoices}
    \cup
    {ResolveDevice(LinkRecords(d1, c1, d2, c2), NoDelta) :
        d1 \in DiskIds, c1 \in CompIds, d2 \in DiskIds, c2 \in CompIds}
    \cup
    {ResolveDevice(CountRecords(n_parts, n_comps), delta) :
        n_parts \in 1..3, n_comps \in 0..2, delta \in Deltas}

\* The devices added after the first disk of the group: the second disk of
\* the group and a disk of another group, both with the good stream.
MemberDevices ==
    {GroupDevice("uuid-b", "uuid-g1", 1, "good"),
     GroupDevice("uuid-a", "uuid-g2", 1, "good")}

\* ldm_add on a device of the resolver family, while the registry holds no
\* group: the stream of the device is the one that is decoded.
AddStream ==
    /\ n_calls < MaxCalls
    /\ ~disk_groups.null /\ disk_groups.arr = <<>>
    /\ \E img \in ResolveDevices : Add("/dev/sdb", img)
    /\ UNCHANGED calls

\* ldm_add on one of the later devices.
AddMember ==
    /\ n_calls < MaxCalls
    /\ \E img \in MemberDevices : Add("/dev/sdc", img)
    /\ UNCHANGED calls

NextResolve == AddStream \/ AddMember

SpecResolve == Init /\ [][NextResolve]_vars

\* ------------------------------------------------------------------------
\* Properties of the registry

\* The sector size ldm_add hands to ldm_add_fd for the device.
SecsizeOf(img) == IF img.blkssz = -1 THEN 512 ELSE img.blkssz

\* The device is one ldm_add_fd reads as far as the lookup of its group:
\* it opens, PRIVHEAD, the config and the VMDB are found and both GUIDs of
\* PRIVHEAD parse.
ReachesLookup(img) ==
    /\ img.open = "ok"
    /\ \E privhead \in {_read_privhead(img, SecsizeOf(img))} :
        /\ privhead.ok
        /\ \E cfg \in {_read_config(img, SecsizeOf(img), privhead.val)} :
            /\ cfg.ok
            /\ _find_vmdb(cfg.val, SecsizeOf(img)).ok
        /\ uuid_parse(privhead.val.disk_guid).rc = 0
        /\ uuid_parse(privhead.val.disk_group_guid).rc = 0

\* The GUIDs and the committed sequence of a device that reaches the lookup.
GroupGuidOf(img) == uuid_parse(img.privhead.disk_group_guid).uu
DiskGuidOf(img) == uuid_parse(img.privhead.disk_guid).uu
CommittedSeqOf(img) == img.config.vmdb.committed_seq

\* The indices of the groups of a registry with the GUID.
GroupsWithGuid(arr, guid) ==
    {i \in 1..Len(arr) : uuid_compare(guid, arr[i].guid) = 0}

\* The step is a call of ldm_add.
AddStep == op' = "ldm_add" /\ n_calls' = n_calls + 1

Errors ==
    {LDM_ERROR_IO, LDM_ERROR_NOT_LDM, LDM_ERROR_INVALID,
     LDM_ERROR_INCONSISTENT, LDM_ERROR_NOTSUPPORTED, LDM_ERROR_INTERNAL}

\* C1: whenever an add returns failure, with whichever of the six errors,
\* the registry is exactly as it was before the call: the same groups in
\* the same order with the same records and the same fields on every disk.
C1_FailedAddLeavesRegistry ==
    [][(AddStep /\ ret' = FALSE) =>
          /\ err' \in Errors
          /\ disk_groups' = disk_groups]_vars

\* C1 witness: an add has failed as inconsistent on a registry that holds
\* a group with a device recorded.
C1_Witness ==
    /\ op = "ldm_add" /\ ret = FALSE /\ err = LDM_ERROR_INCONSISTENT
    /\ \E i \in 1..Len(disk_groups.arr) :
        \E j \in 1..Len(disk_groups.arr[i].disks) :
            disk_groups.arr[i].disks[j].device # NULL

\* C2: an add of a disk whose group GUID is in the registry succeeds only
\* if the committed sequence of the disk's VMDB equals the sequence of the
\* group and fails with Inconsistent otherwise; a group never changes its
\* sequence, and after a successful add the group of the disk has the
\* sequence the disk carried.  (The disk is one that is read as far as the
\* lookup of its group.)
C2_SequenceAgrees ==
    [][AddStep /\ ~disk_groups.null =>
          /\ \A i \in 1..Len(disk_groups.arr) :
                /\ i <= Len(disk_groups'.arr)
                /\ disk_groups'.arr[i].sequence = disk_groups.arr[i].sequence
                /\ disk_groups'.arr[i].guid = disk_groups.arr[i].guid
          /\ ReachesLookup(arg'.img) =>
                /\ \A i \in GroupsWithGuid(disk_groups.arr, GroupGuidOf(arg'.img)) :
                      IF CommittedSeqOf(arg'.img) = disk_groups.arr[i].sequence
                      THEN ret' = TRUE
                      ELSE ret' = FALSE /\ err' = LDM_ERROR_INCONSISTENT
                /\ ret' = TRUE =>
                      /\ GroupsWithGuid(disk_groups'.arr, GroupGuidOf(arg'.img)) # {}
                      /\ \A i \in GroupsWithGuid(disk_groups'.arr,
                                                 GroupGuidOf(arg'.img)) :
                            disk_groups'.arr[i].sequence = CommittedSeqOf(arg'.img)]_vars

\* C2 witness: a disk of a group of the registry was refused because its
\* sequence is not the group's, after a disk with the group's sequence was
\* added to the same group.
C2_Witness ==
    /\ n_calls = 3 /\ op = "ldm_add" /\ ret = FALSE
    /\ err = LDM_ERROR_INCONSISTENT /\ dg > 0
    /\ CommittedSeqOf(arg.img) # disk_groups.arr[dg].sequence
    /\ Cardinality({j \in 1..Len(disk_groups.arr[dg].disks) :
                       disk_groups.arr[dg].disks[j].device # NULL}) = 2

\* C3: after any sequence of adds, successful or not, repeated or not, no
\* two groups of the registry have the same GUID.
C3_UniqueGroupGuids ==
    \A i, j \in 1..Len(disk_groups.arr) :
        uuid_compare(disk_groups.arr[i].guid, disk_groups.arr[j].guid) = 0
            => i = j

\* C3 witness: two groups are in the registry and the last add, a
\* successful one, was of a disk of the first of them.
C3_Witness ==
    /\ Len(disk_groups.arr) = 2 /\ n_calls = 3
    /\ op = "ldm_add" /\ ret = TRUE /\ dg = 1

\* The disks of every group of a registry, as <<group, disk>> index pairs.
DisksOf(arr) ==
    {<<i, j>> \in (1..Len(arr)) \X (1..8) : j <= Len(arr[i].disks)}

\* C5: a disk's device is filled in once: when a disk of the registry has
\* its device, no later add, of the same path or of another device with
\* the same disk GUID, changes the disk.
C5_DeviceFilledOnce ==
    [][AddStep =>
          \A d \in DisksOf(disk_groups.arr) :
              disk_groups.arr[d[1]].disks[d[2]].device # NULL =>
                  /\ d \in DisksOf(disk_groups'.arr)
                  /\ disk_groups'.arr[d[1]].disks[d[2]] =
                         disk_groups.arr[d[1]].disks[d[2]]]_vars

\* A disk without the five fields an add fills in from the path and PRIVHEAD.
WithoutDeviceFields(disk) ==
    [disk EXCEPT !.device = NULL, !.data_start = 0, !.data_size = 0,
                 !.metadata_start = 0, !.metadata_size = 0]

\* The disks an add has changed.
ChangedDisks(old, new) ==
    {d \in DisksOf(old) : d \notin DisksOf(new)
                          \/ new[d[1]].disks[d[2]] # old[d[1]].disks[d[2]]}

\* C6: a successful add of a disk whose group is in the registry leaves
\* every group with its lists, its records and its id, name and sequence;
\* it changes at most one disk, one whose GUID is the disk GUID of
\* PRIVHEAD, and on it only device, data_start, data_size, metadata_start
\* and metadata_size.  The stream of the disk is not decoded: the add
\* succeeds whether or not the stream would parse.
C6_ExistingGroupFrame ==
    [][(/\ AddStep /\ ~disk_groups.null /\ ReachesLookup(arg'.img)
        /\ \E i \in GroupsWithGuid(disk_groups.arr, GroupGuidOf(arg'.img)) :
              CommittedSeqOf(arg'.img) = disk_groups.arr[i].sequence)
       =>
          /\ ret' = TRUE
          /\ Len(disk_groups'.arr) = Len(disk_groups.arr)
          /\ \A i \in 1..Len(disk_groups.arr) :
                /\ [disk_groups'.arr[i] EXCEPT !.disks = <<>>] =
                       [disk_groups.arr[i] EXCEPT !.disks = <<>>]
                /\ Len(disk_groups'.arr[i].disks) = Len(disk_groups.arr[i].disks)
          /\ Cardinality(ChangedDisks(disk_groups.arr, disk_groups'.arr)) <= 1
          /\ \A d \in ChangedDisks(disk_groups.arr, disk_groups'.arr) :
                /\ d[1] \in GroupsWithGuid(disk_groups.arr, GroupGuidOf(arg'.img))
                /\ uuid_compare(DiskGuidOf(arg'.img),
                                disk_groups.arr[d[1]].disks[d[2]].guid) = 0
                /\ WithoutDeviceFields(disk_groups'.arr[d[1]].disks[d[2]]) =
                       WithoutDeviceFields(disk_groups.arr[d[1]].disks[d[2]])
                /\ disk_groups'.arr[d[1]].disks[d[2]].device = arg'.path]_vars

\* C6 witness: the second disk of a group was added from a device whose
\* stream has a record of an unsupported revision, and the group has the
\* devices of both disks.
C6_Witness ==
    /\ op = "ldm_add" /\ ret = TRUE /\ dg > 0
    /\ arg.img.config.vblks = StreamOf("unsupported")
    /\ \A j \in 1..Len(disk_groups.arr[dg].disks) :
          disk_groups.arr[dg].disks[j].device # NULL
    /\ \E j \in 1..Len(disk_groups.arr[dg].disks) :
          /\ disk_groups.arr[dg].disks[j].device = arg.path
          /\ disk_groups.arr[dg].disks[j].data_start =
                 arg.img.privhead.logical_disk_start

\* C10: when ldm_add_fd returns, on whichever path, the descriptor it was
\* given is closed and no config buffer is left allocated.
C10_Released ==
    (op = "ldm_add" /\ fd # "none") => (fd = "closed" /\ config # "allocated")

\* ------------------------------------------------------------------------
\* Properties of the resolved groups

\* The value a var-int field of a record holds.
FieldValue(field) == BigEndian(field, 2, field[1], 0)

\* The records of a stream of whole-record entries, by kind (the low nibble
\* of the type byte): 1 volume, 2 component, 3 partition, 4 disk.
RecordsOfKind(vblks, kind) ==
    {vblks[i].data.rec.body : i \in {k \in 1..Len(vblks) :
                                        vblks[k].data.rec.type % 16 = kind}}

IdsOfKind(vblks, kind) ==
    {FieldValue(body.id) : body \in RecordsOfKind(vblks, kind)}

\* Some partition record of the stream names a disk or a component that no
\* record of the stream is.
HasOrphanPartition(vblks) ==
    \E part \in RecordsOfKind(vblks, 3) :
        \/ FieldValue(part.disk_id) \notin IdsOfKind(vblks, 4)
        \/ FieldValue(part.parent_id) \notin IdsOfKind(vblks, 2)

\* The step is an add that decodes the stream of its device: the device is
\* read as far as the lookup and the lookup finds no group.
DecodingAdd ==
    /\ AddStep /\ ~disk_groups.null /\ ReachesLookup(arg'.img)
    /\ GroupsWithGuid(disk_groups.arr, GroupGuidOf(arg'.img)) = {}

\* C7, the groups: each partition's disk reference is a disk of its group
\* with the id the partition names, and each partition is in the child
\* list of a component of its group with the id the partition names.
PartitionsLinked(group) ==
    \A k \in 1..Len(group.parts) :
        /\ group.parts[k].disk \in 1..Len(group.disks)
        /\ group.disks[group.parts[k].disk].id = group.parts[k].disk_id
        /\ \E c \in 1..Len(group.comps) :
              /\ group.comps[c].id = group.parts[k].parent_id
              /\ k \in Range(group.comps[c].parts)

\* C7: every group of the registry has its partitions linked, and an add
\* that decodes a stream with an orphan partition fails with Invalid (the
\* streams are ones whose records all decode).
C7_PartitionsResolved ==
    /\ [](\A i \in 1..Len(disk_groups.arr) :
             PartitionsLinked(disk_groups.arr[i]))
    /\ [][(DecodingAdd /\ HasOrphanPartition(arg'.img.config.vblks)) =>
              (ret' = FALSE /\ err' = LDM_ERROR_INVALID
               /\ disk_groups' = disk_groups)]_vars

\* C7 witness: a group whose two partitions are on different disks and in
\* different components is in the registry.
C7_Witness ==
    \E i \in 1..Len(disk_groups.arr) :
        /\ Len(disk_groups.arr[i].parts) = 2
        /\ disk_groups.arr[i].parts[1].disk = 2
        /\ disk_groups.arr[i].parts[2].disk = 1
        /\ disk_groups.arr[i].comps[1].parts = <<2>>
        /\ disk_groups.arr[i].comps[2].parts = <<1>>

\* C7 witness of the failure: the add of a stream with an orphan partition
\* has failed with Invalid.
C7_OrphanRefused ==
    /\ op = "ldm_add" /\ ret = FALSE /\ err = LDM_ERROR_INVALID
    /\ HasOrphanPartition(arg.img.config.vblks)

\* The indices of the child partitions of a component, in list order.
ChildIndices(group, c) ==
    [k \in 1..Len(group.comps[c].parts) |->
        group.parts[group.comps[c].parts[k]].index]

CountsAgree(vmdb, vblks) ==
    /\ vmdb.n_committed_vblks_disk = CountKind(vblks, 4)
    /\ vmdb.n_committed_vblks_comp = CountKind(vblks, 2)
    /\ vmdb.n_committed_vblks_part = CountKind(vblks, 3)
    /\ vmdb.n_committed_vblks_vol = CountKind(vblks, 1)
    /\ \A comp \in RecordsOfKind(vblks, 2) :
          FieldValue(comp.n_parts) =
              Cardinality({i \in 1..Len(vblks) :
                  /\ vblks[i].data.rec.type % 16 = 3
                  /\ FieldValue(vblks[i].data.rec.body.parent_id) =
                         FieldValue(comp.id)})
    /\ \A vol \in RecordsOfKind(vblks, 1) :
          FieldValue(vol.n_comps) =
              Cardinality({i \in 1..Len(vblks) :
                  /\ vblks[i].data.rec.type % 16 = 2
                  /\ FieldValue(vblks[i].data.rec.body.parent_id) =
                         FieldValue(vol.id)})

\* C9, the groups: every child list has the declared length and the four
\* lists have the lengths the group took from the VMDB.
CountsHold(group) ==
    /\ \A c \in 1..Len(group.comps) :
          Len(group.comps[c].parts) = group.comps[c].n_parts
    /\ \A v \in 1..Len(group.vols) :
          Len(group.vols[v].comps) = group.vols[v].n_comps
    /\ Len(group.disks) = group.n_disks
    /\ Len(group.comps) = group.n_comps
    /\ Len(group.parts) = group.n_parts
    /\ Len(group.vols) = group.n_vols

\* C9: every group of the registry has the counts; an add that decodes a
\* stream gives the new group the committed counts of the VMDB, and fails
\* with Invalid when a count of the stream does not agree.
C9_CountsResolved ==
    /\ [](\A i \in 1..Len(disk_groups.arr) : CountsHold(disk_groups.arr[i]))
    /\ [][DecodingAdd =>
              /\ ret' = TRUE =>
                    LET group == disk_groups'.arr[Len(disk_groups'.arr)]
                        vmdb == arg'.img.config.vmdb
                    IN
                    /\ Len(disk_groups'.arr) = Len(disk_groups.arr) + 1
                    /\ Len(group.disks) = vmdb.n_committed_vblks_disk
                    /\ Len(group.comps) = vmdb.n_committed_vblks_comp
                    /\ Len(group.parts) = vmdb.n_committed_vblks_part
                    /\ Len(group.vols) = vmdb.n_committed_vblks_vol
              /\ ~CountsAgree(arg'.img.config.vmdb, arg'.img.config.vblks) =>
                    (ret' = FALSE /\ err' = LDM_ERROR_INVALID
                     /\ disk_groups' = disk_groups)]_vars

\* C9 witness: a group of two disks, one volume, two components and two
\* partitions is in the registry, one component with both partitions and
\* one with none.
C9_Witness ==
    \E i \in 1..Len(disk_groups.arr) :
        /\ Len(disk_groups.arr[i].disks) = 2
        /\ Len(disk_groups.arr[i].vols) = 1
        /\ Len(disk_groups.arr[i].vols[1].comps) = 2
        /\ Len(disk_groups.arr[i].comps[1].parts) = 0
        /\ Len(disk_groups.arr[i].comps[2].parts) = 2

\* C9 witness of the failure: the add of a stream whose VMDB commits one
\* partition more than the stream holds has failed with Invalid.
C9_MismatchRefused ==
    /\ op = "ldm_add" /\ ret = FALSE /\ err = LDM_ERROR_INVALID
    /\ arg.img.config.vmdb.n_committed_vblks_part =
           CountKind(arg.img.config.vblks, 3) + 1

\* ------------------------------------------------------------------------
\* The specification of the order of the adds: every call is recorded.

\* Bound: add calls per behaviour.
MaxOrderCalls == 3

\* Both disks of group uuid-g1 at sequence 1, with the good stream or with
\* the one that has an orphan partition, and disk uuid-a at sequence 2.
OrderDevices ==
    {GroupDevice(d, "uuid-g1", 1, kind) :
        d \in DiskGuids, kind \in {"good", "orphan"}}
    \cup {GroupDevice("uuid-a", "uuid-g1", 2, "good")}

\* ldm_add, with the call appended to calls.
AddRecorded ==
    /\ n_calls < MaxOrderCalls
    /\ \E path \in Paths, img \in OrderDevices :
          /\ Add(path, img)
          /\ calls' = Append(calls, [path |-> path, img |-> img])

NextOrder == AddRecorded

SpecOrder == Init /\ [][NextOrder]_vars

\* The registry after the calls cs, made in their order on the registry reg.
RECURSIVE Replay(_, _)
Replay(cs, reg) ==
    IF cs = <<>> THEN reg
    ELSE Eval(ldm_add(reg, Head(cs).path, Head(cs).img).disk_groups,
              LAMBDA next : Replay(Tail(cs), next))

\* The orders of n calls.
Orders(n) ==
    {f \in [1..n -> 1..n] : \A i, j \in 1..n : f[i] = f[j] => i = j}

Reordered(cs, f) == [i \in 1..Len(cs) |-> cs[f[i]]]

\* The calls are of disks of one group that carry one committed sequence.
OneGroupOneSequence(cs) ==
    \A i, j \in 1..Len(cs) :
        /\ ReachesLookup(cs[i].img)
        /\ GroupGuidOf(cs[i].img) = GroupGuidOf(cs[j].img)
        /\ CommittedSeqOf(cs[i].img) = CommittedSeqOf(cs[j].img)

\* The calls are of different disks at different paths.
DistinctDisks(cs) ==
    \A i, j \in 1..Len(cs) :
        i # j => /\ DiskGuidOf(cs[i].img) # DiskGuidOf(cs[j].img)
                 /\ cs[i].path # cs[j].path

\* The calls are of disks with the same VMDB and the same VBLK stream.
SameDatabase(cs) ==
    \A i, j \in 1..Len(cs) : cs[i].img.config = cs[j].img.config

\* The disk GUIDs that more than one of the calls carries.
SharedDiskGuids(cs) ==
    {DiskGuidOf(cs[i].img) : i \in {k \in 1..Len(cs) :
        \E j \in 1..Len(cs) :
            j # k /\ DiskGuidOf(cs[j].img) = DiskGuidOf(cs[k].img)}}

\* The groups of a registry without the device fields of the disks with
\* one of the GUIDs.
ExceptDevicesOf(arr, guids) ==
    [i \in 1..Len(arr) |->
        [arr[i] EXCEPT !.disks = [j \in 1..Len(arr[i].disks) |->
            IF arr[i].disks[j].guid \in guids
            THEN WithoutDeviceFields(arr[i].disks[j])
            ELSE arr[i].disks[j]]]]

\* C4 as stated: for different disks of one group that carry one committed
\* sequence, the registry after adding all of them is the same, device
\* fields included, for every order of the adds.
C4_OrderIndependent ==
    (OneGroupOneSequence(calls) /\ DistinctDisks(calls)) =>
        \A f \in Orders(Len(calls)) :
            Replay(Reordered(calls, f), ldm_new) = disk_groups

\* C4 amended: for disks of one group that carry one committed sequence
\* and the same VMDB and VBLK stream, the registry after adding all of
\* them is the same for every order of the adds in its groups, records and
\* list orders, and in the device fields of every disk whose GUID is
\* carried by one of the devices only.
C4_OrderIndependentSameDatabase ==
    (OneGroupOneSequence(calls) /\ SameDatabase(calls)) =>
        \A f \in Orders(Len(calls)) :
            ExceptDevicesOf(Replay(Reordered(calls, f), ldm_new).arr,
                            SharedDiskGuids(calls))
                = ExceptDevicesOf(disk_groups.arr, SharedDiskGuids(calls))

\* C4 witness: three adds of devices with one database were made, of both
\* disks of the group, and the group has the devices of both.
C4_Witness ==
    /\ Len(calls) = 3
    /\ OneGroupOneSequence(calls) /\ SameDatabase(calls)
    /\ {DiskGuidOf(calls[i].img) : i \in 1..3} =
           {uuid_parse_value("uuid-a"), uuid_parse_value("uuid-b")}
    /\ Len(disk_groups.arr) = 1
    /\ \A j \in 1..Len(disk_groups.arr[1].disks) :
          disk_groups.arr[1].disks[j].device # NULL

\* ------------------------------------------------------------------------
\* The devices of the table specification: the disks uuid-a, uuid-b and
\* uuid-c of group uuid-g1 at sequence 1, with a stream of one volume.

\* Bound: add calls per behaviour of the table specification.
MaxTableCalls == 3

TableDisks == {"uuid-a", "uuid-b", "uuid-c"}

PathOf(disk_guid) ==
    CASE disk_guid = "uuid-a" -> "/dev/sdb"
      [] disk_guid = "uuid-b" -> "/dev/sdc"
      [] disk_guid = "uuid-c" -> "/dev/sdd"

\* The names of the group, the volume and the partitions: plain ones, and
\* ones with characters a table name must not hold.
PlainNames ==
    [dg |-> <<"d", "g", "1">>, vol |-> <<"v", "1">>,
     parts |-> <<<<"p", "a">>, <<"p", "b">>, <<"p", "c">>>>]
OddNames ==
    [dg |-> <<"d", "g", " ", "1">>, vol |-> <<"v", "/", "1">>,
     parts |-> <<<<"p", ":", "a">>, <<"p", "%", "b">>, <<"p", "#", "c">>>>]

TableDiskRecords(names) ==
    <<DiskGroupRecord(4, 1, names.dg),
      DiskRecord(4, 1, <<"D", "1">>, "uuid-a"),
      DiskRecord(3, 2, <<"D", "2">>, "uuid-b"),
      DiskRecord(4, 3, <<"D", "3">>, "uuid-c")>>

\* One component per leg, of the type given, with one partition of 100
\* sectors on the disk given.
LegRecords(names, type, disks, types) ==
    TableDiskRecords(names)
    \o <<VolumeRecord(5, 1, names.vol, type, Len(disks), 100)>>
    \o [i \in 1..Len(disks) |->
            ComponentRecord(3, i, <<"c", Digits[i + 1]>>, types[i], 1, 1)]
    \o [i \in 1..Len(disks) |->
            PartitionRecord(3, i, names.parts[i], 10, 0, 100, i, disks[i], 0)]

\* One component of the type given with the columns given; partition i is
\* on disks[i], has sizes[i] sectors and the volume offset offsets[i].
PartsRecords(names, vol_type, size, comp_type, n_columns, disks, sizes, offsets) ==
    TableDiskRecords(names)
    \o <<VolumeRecord(5, 1, names.vol, vol_type, 1, size),
         [ComponentRecord(3, 1, <<"c", "1">>, comp_type, Len(disks), 1)
             EXCEPT !.body.n_columns = VarInt(n_columns)]>>
    \o [i \in 1..Len(disks) |->
            PartitionRecord(3, i, names.parts[i], 10 * i, offsets[i], sizes[i],
                            1, disks[i], i - 1)]

\* A volume of two components, the second with two partitions.
WideLegRecords ==
    TableDiskRecords(PlainNames)
    \o <<VolumeRecord(5, 1, PlainNames.vol, LDM_VOLUME_TYPE_GEN, 2, 100),
         ComponentRecord(3, 1, <<"c", "1">>, LDM_COMPONENT_TYPE_SPANNED, 1, 1),
         ComponentRecord(3, 2, <<"c", "2">>, LDM_COMPONENT_TYPE_SPANNED, 2, 1),
         PartitionRecord(3, 1, PlainNames.parts[1], 10, 0, 100, 1, 1, 0),
         PartitionRecord(3, 2, PlainNames.parts[2], 10, 0, 50, 2, 2, 0),
         PartitionRecord(3, 3, PlainNames.parts[3], 10, 50, 50, 2, 3, 1)>>

\* A GEN volume without a component: the volume record has n_comps = 0
\* and no component names it as its parent.
EmptyRecords ==
    TableDiskRecords(PlainNames)
    \o <<VolumeRecord(5, 1, PlainNames.vol, LDM_VOLUME_TYPE_GEN, 0, 100)>>

\* A RAID5 volume without a component.
BareRecords ==
    TableDiskRecords(PlainNames)
    \o <<VolumeRecord(5, 1, PlainNames.vol, LDM_VOLUME_TYPE_RAID5, 0, 100)>>

AllSpanned == [i \in 1..3 |-> LDM_COMPONENT_TYPE_SPANNED]

NameChoices == {PlainNames, OddNames}

\* Mirrors of two and three legs, with legs on one disk or on several.
MirrorRecords ==
    {LegRecords(names, LDM_VOLUME_TYPE_GEN, disks, AllSpanned) :
        names \in NameChoices,
        disks \in {<<1, 2>>, <<1, 2, 3>>, <<1, 2, 2>>, <<2, 1, 1>>}}

\* Spanned volumes of one to three partitions of 100, 50 and 25 sectors,
\* the offsets and the size of the volume right or not.
SpannedRecords ==
    {PartsRecords(names, LDM_VOLUME_TYPE_GEN, size,
                  LDM_COMPONENT_TYPE_SPANNED, 3, <<1, 2, 3>>, <<100, 50, 25>>,
                  offsets) :
        names \in NameChoices, size \in {175, 200},
        offsets \in {<<0, 100, 150>>, <<10, 100, 150>>, <<0, 90, 150>>,
                     <<0, 100, 160>>}}
    \cup
    {PartsRecords(PlainNames, LDM_VOLUME_TYPE_GEN, 100,
                  LDM_COMPONENT_TYPE_SPANNED, 1, <<1>>, <<100>>, <<0>>),
     PartsRecords(PlainNames, LDM_VOLUME_TYPE_GEN, 150,
                  LDM_COMPONENT_TYPE_SPANNED, 2, <<1, 1>>, <<100, 50>>,
                  <<0, 100>>)}

StripedRecords ==
    {PartsRecords(names, LDM_VOLUME_TYPE_GEN, 200,
                  LDM_COMPONENT_TYPE_STRIPED, 2, <<1, 2>>, <<100, 100>>,
                  <<0, 0>>) : names \in NameChoices}

\* RAID5 volumes of three partitions that declare any number of columns.
Raid5Records ==
    {PartsRecords(names, LDM_VOLUME_TYPE_RAID5, 200,
                  LDM_COMPONENT_TYPE_RAID, n_columns, disks,
                  <<100, 100, 100>>, <<0, 0, 0>>) :
        names \in NameChoices, n_columns \in 0..4,
        disks \in {<<1, 2, 3>>, <<1, 2, 2>>}}

\* The shapes no generator takes.
UnsupportedRecords ==
    {LegRecords(PlainNames, LDM_VOLUME_TYPE_GEN, <<1, 2, 3>>,
                [AllSpanned EXCEPT ![i] = t]) :
        i \in 1..3,
        t \in {LDM_COMPONENT_TYPE_STRIPED, LDM_COMPONENT_TYPE_RAID}}
    \cup
    {LegRecords(PlainNames, LDM_VOLUME_TYPE_RAID5, <<1, 2>>,
                [i \in 1..2 |-> LDM_COMPONENT_TYPE_RAID]),
     WideLegRecords, BareRecords}
    \cup
    {PartsRecords(PlainNames, vol_type, 200, comp_type, 3, <<1, 2, 3>>,
                  <<100, 100, 100>>, <<0, 0, 0>>) :
        vol_type \in {LDM_VOLUME_TYPE_GEN, LDM_VOLUME_TYPE_RAID5},
        comp_type \in {LDM_COMPONENT_TYPE_STRIPED, LDM_COMPONENT_TYPE_SPANNED,
                       LDM_COMPONENT_TYPE_RAID}}

TableRecords ==
    MirrorRecords \cup SpannedRecords \cup StripedRecords \cup Raid5Records
    \cup UnsupportedRecords \cup {EmptyRecords}

TableDevice(disk_guid, vblks) ==
    Device(disk_guid, "uuid-g1", GeomOf(disk_guid), Vmdb(1, vblks, NoDelta),
           vblks)

\* ldm_add on the first disk of the group: its stream is the one decoded.
AddVolume ==
    /\ n_calls < MaxTableCalls
    /\ op \notin {"ldm_volume_generate_dm_tables", "killed"}
    /\ ~disk_groups.null /\ disk_groups.arr = <<>>
    /\ \E recs \in TableRecords, d \in TableDisks :
          Add(PathOf(d), TableDevice(d, Entries(recs)))
    /\ UNCHANGED calls

\* ldm_add on a disk of the group, with the stream the first one had.
AddLeg ==
    /\ n_calls < MaxTableCalls
    /\ op \notin {"ldm_volume_generate_dm_tables", "killed"}
    /\ disk_groups.arr # <<>>
    /\ \E d \in TableDisks :
          Add(PathOf(d), TableDevice(d, arg.img.config.vblks))
    /\ UNCHANGED calls

\* ldm_volume_generate_dm_tables(vol, err) on a volume of a group of the
\* registry; errp tells whether the caller passes a location for the
\* error.
\* A GEN volume without a component takes element 0 of its empty array of
\* components (g_array_sized_new with nothing reserved has no data): the
\* process does not survive the read.
GenerateTables ==
    /\ op # "killed" /\ disk_groups.arr # <<>>
    /\ \E g \in 1..Len(disk_groups.arr), errp \in BOOLEAN :
       \E v \in 1..Len(disk_groups.arr[g].vols) :
          /\ arg' = [group |-> g, vol |-> v, errp |-> errp]
          /\ IF ReadsPastComps(disk_groups.arr[g].vols[v])
             THEN op' = "killed" /\ UNCHANGED <<tables, err>>
             ELSE \E r \in {ldm_volume_generate_dm_tables(disk_groups.arr[g],
                                 disk_groups.arr[g].vols[v], errp)} :
                    /\ tables' = [null |-> r.null, arr |-> r.arr]
                    /\ err' = r.err
                    /\ op' = "ldm_volume_generate_dm_tables"
    /\ UNCHANGED <<disk_groups, ret, fd, config, dg, n_calls, calls>>

NextTables == AddVolume \/ AddLeg \/ GenerateTables

SpecTables == Init /\ [][NextTables]_vars

\* ------------------------------------------------------------------------
\* Properties of the table generator

\* The last call was ldm_volume_generate_dm_tables; its volume, the
\* group of the volume, the components and partitions below it.
Generated == op = "ldm_volume_generate_dm_tables"
TheGroup == disk_groups.arr[arg.group]
TheVolume == TheGroup.vols[arg.vol]
TheComps == [i \in 1..Len(TheVolume.comps) |-> TheGroup.comps[TheVolume.comps[i]]]
PartsOf(comp) == [i \in 1..Len(comp.parts) |-> TheGroup.parts[comp.parts[i]]]
DiskOf(part) == TheGroup.disks[part.disk]
IsMissing(part) == DiskOf(part).device = NULL

\* A volume the mirror generator takes: GEN, several components, each
\* SPANNED with one partition; its legs are those partitions.
IsMirror ==
    /\ TheVolume.type = LDM_VOLUME_TYPE_GEN
    /\ Len(TheComps) > 1
    /\ \A i \in 1..Len(TheComps) :
          /\ TheComps[i].type = LDM_COMPONENT_TYPE_SPANNED
          /\ Len(TheComps[i].parts) = 1
MirrorLegs == [i \in 1..Len(TheComps) |-> PartsOf(TheComps[i])[1]]

\* The leaf table of a partition as the specification words it: the
\* name from the template with both parts escaped, and the line
\* "0 <size> linear <device> <data_start+start>".
LeafName(part) ==
    <<"l", "d", "m", "_">>
    \o g_uri_escape_string(DiskOf(part).dgname,
           G_URI_RESERVED_CHARS_ALLOWED_IN_PATH_ELEMENT)
    \o <<"_">>
    \o g_uri_escape_string(part.name,
           G_URI_RESERVED_CHARS_ALLOWED_IN_PATH_ELEMENT)
LeafLine(part) ==
    <<Decimal(0), Decimal(part.size), <<"linear">>, <<DiskOf(part).device>>,
      Decimal(DiskOf(part).data_start + part.start), <<"\n">>>>
IsLeafOf(t, part) == t.name = LeafName(part) /\ t.table = LeafLine(part)

\* The word that refers to the leaf of a partition, and the slots of the
\* legs given: "- /dev/mapper/<leaf>" for a leg that is present, "- -"
\* for one that is missing.
LeafRef(part) == <<"/dev/mapper/">> \o LeafName(part)
Slots(legs) ==
    [k \in 1..(2 * Len(legs)) |->
        IF k % 2 = 1 \/ IsMissing(legs[(k + 1) \div 2]) THEN <<"-">>
        ELSE LeafRef(legs[k \div 2])]
Raid1Line(legs) ==
    <<Decimal(0), Decimal(TheVolume.size), <<"raid">>, <<"raid1">>,
      Decimal(1), Decimal(128), Decimal(Len(legs))>>
    \o Slots(legs) \o <<<<"\n">>>>

\* C11 as stated: for a GEN volume of N > 1 legs whose disks are all
\* present the call returns N + 1 tables: the leaf of component 1, of
\* component 2, ..., of component N, in the order of the component list
\* and of the references of the raid1 line, and then the raid1 table.
C11_LeavesInComponentOrder ==
    (Generated /\ IsMirror
     /\ \A i \in 1..Len(MirrorLegs) : ~IsMissing(MirrorLegs[i]))
    =>
       /\ ~tables.null
       /\ Len(tables.arr) = Len(MirrorLegs) + 1
       /\ \A i \in 1..Len(MirrorLegs) : IsLeafOf(tables.arr[i], MirrorLegs[i])
       /\ tables.arr[Len(MirrorLegs) + 1].table = Raid1Line(MirrorLegs)

\* C11, amended: the N leaf tables come in the reverse of the order of the
\* component list (each leaf is put in front of the ones made before it),
\* the raid1 line names them in the order of the component list, and the
\* raid1 table is the last of the N + 1.
C11_LeavesInReverseOrder ==
    (Generated /\ IsMirror
     /\ \A i \in 1..Len(MirrorLegs) : ~IsMissing(MirrorLegs[i]))
    =>
       /\ ~tables.null
       /\ Len(tables.arr) = Len(MirrorLegs) + 1
       /\ \A i \in 1..Len(MirrorLegs) :
             IsLeafOf(tables.arr[i], MirrorLegs[Len(MirrorLegs) + 1 - i])
       /\ tables.arr[Len(MirrorLegs) + 1].table = Raid1Line(MirrorLegs)

\* C11 witness: the tables of a mirror of three legs on three disks that
\* are all present.
C11_Witness ==
    /\ Generated /\ IsMirror /\ Len(MirrorLegs) = 3
    /\ \A i \in 1..3 : ~IsMissing(MirrorLegs[i])
    /\ {MirrorLegs[i].disk : i \in 1..3} = {1, 2, 3}
    /\ Len(tables.arr) = 4

\* The names the words of a table refer to through /dev/mapper.
MapperRefs(table) ==
    {Tail(table[k]) : k \in {j \in 1..Len(table) : table[j][1] = "/dev/mapper/"}}

\* C12: in every table list returned, for a mirror, a RAID5, a spanned or
\* a striped volume, degraded or not, the table of the volume is the last
\* one and every leaf its text refers to through /dev/mapper/<name> is a
\* table earlier in the list.
C12_LeavesBeforeTop ==
    (Generated /\ ~tables.null)
    =>
       /\ tables.arr # <<>>
       /\ tables.arr[Len(tables.arr)].obj = 0
       /\ \A k \in 1..(Len(tables.arr) - 1) : tables.arr[k].obj # 0
       /\ \A name \in MapperRefs(tables.arr[Len(tables.arr)].table) :
             \E k \in 1..(Len(tables.arr) - 1) : tables.arr[k].name = name

\* C12 witness: a list of three tables whose last one refers to two
\* leaves and holds a "- -" pair for a third.
C12_Witness ==
    /\ Generated /\ ~tables.null /\ Len(tables.arr) = 3
    /\ Cardinality(MapperRefs(tables.arr[3].table)) = 2
    /\ \E k \in 2..Len(tables.arr[3].table) :
          tables.arr[3].table[k - 1] = <<"-">> /\ tables.arr[3].table[k] = <<"-">>

\* The legs of the volume whose disk is missing, by position.
MissingLegs(legs) == {i \in 1..Len(legs) : IsMissing(legs[i])}

\* What a degraded mirror is to give: no tables, and MissingDisk when the
\* caller has a place for the error, when every leg is missing; otherwise
\* one leaf table per leg that is present and none for the others, and a
\* raid1 line with the count N, "- -" for each missing leg and
\* "- /dev/mapper/<leaf>" for each present one.
DegradedMirror ==
    IF MissingLegs(MirrorLegs) = 1..Len(MirrorLegs)
    THEN tables.null /\ (arg.errp => err = LDM_ERROR_MISSING_DISK)
    ELSE /\ ~tables.null
         /\ Len(tables.arr) = Len(MirrorLegs) - Cardinality(MissingLegs(MirrorLegs)) + 1
         /\ \A i \in 1..Len(MirrorLegs) :
               IsMissing(MirrorLegs[i]) <=>
                  ~\E k \in 1..(Len(tables.arr) - 1) :
                       tables.arr[k].name = LeafName(MirrorLegs[i])
         /\ \A k \in 1..(Len(tables.arr) - 1) :
               \E i \in 1..Len(MirrorLegs) : IsLeafOf(tables.arr[k], MirrorLegs[i])
         /\ tables.arr[Len(tables.arr)].table = Raid1Line(MirrorLegs)

\* C13: for a GEN volume of N > 1 components, each SPANNED with one
\* partition, every leg whose disk is missing gives "- -" and no leaf
\* table, every other leg "- /dev/mapper/<leaf>" and one leaf table, the
\* count in the line stays N, and the call fails with MissingDisk, without
\* tables, exactly when every leg is missing.
C13_DegradedMirror == (Generated /\ IsMirror) => DegradedMirror

\* The same for the calls that pass a location for the error.
C13_DegradedMirrorWithLocation ==
    (Generated /\ IsMirror /\ arg.errp) => DegradedMirror

\* A mirror with a missing leg and a present one, generated without a
\* location for the error.
C13_NoLocation ==
    /\ Generated /\ IsMirror /\ ~arg.errp
    /\ MissingLegs(MirrorLegs) \notin {{}, 1..Len(MirrorLegs)}

\* The legs of a volume with a raid table: the partitions of the one
\* component of a RAID5 volume, the legs of a mirror.
TopLegs ==
    IF TheVolume.type = LDM_VOLUME_TYPE_RAID5 THEN PartsOf(TheComps[1])
    ELSE MirrorLegs

\* The call returned tables and the last is a raid1 or raid5 table.
RaidReturned ==
    /\ Generated /\ ~tables.null
    /\ tables.arr[Len(tables.arr)].table[3] = <<"raid">>

\* The number of "- -" pairs among the slots of a raid1 or raid5 line,
\* which follow its seven first words.
PlaceholderPairs(table) ==
    Cardinality({i \in 1..((Len(table) - 8) \div 2) :
                    table[6 + 2 * i] = <<"-">> /\ table[7 + 2 * i] = <<"-">>})

\* The disks of the volume that have no device.
MissingDisks == {legs.disk : legs \in {TopLegs[i] : i \in MissingLegs(TopLegs)}}

\* C14 as stated: in every raid1 or raid5 table returned, the number of
\* "- -" pairs is the number of disks of the volume that are missing.
C14_PlaceholdersPerDisk ==
    RaidReturned =>
        PlaceholderPairs(tables.arr[Len(tables.arr)].table)
            = Cardinality(MissingDisks)

\* C14, amended: the number of "- -" pairs is the number of legs (child
\* partitions) of the volume whose disk is missing; two legs on one
\* missing disk give two pairs.
C14_PlaceholdersPerLeg ==
    RaidReturned =>
        PlaceholderPairs(tables.arr[Len(tables.arr)].table)
            = Cardinality(MissingLegs(TopLegs))

\* C14 witness: a raid5 table and a raid1 table returned with a leg
\* missing; here a raid5 table with one "- -" pair.
C14_Witness ==
    /\ RaidReturned
    /\ TheVolume.type = LDM_VOLUME_TYPE_RAID5
    /\ Cardinality(MissingLegs(TopLegs)) = 1
    /\ PlaceholderPairs(tables.arr[Len(tables.arr)].table) = 1

\* A volume the RAID5 generator takes: RAID5 with one component, of type
\* RAID.
IsRaid5 ==
    /\ TheVolume.type = LDM_VOLUME_TYPE_RAID5
    /\ Len(TheComps) = 1
    /\ TheComps[1].type = LDM_COMPONENT_TYPE_RAID

\* C15: for a RAID5 volume with one RAID component the call succeeds when
\* no partition or exactly one has a missing disk and fails with
\* MissingDisk when two or more have, whatever n_columns the component
\* declares (0 and values other than the number of partitions included).
\* Stated for the calls that pass a location for the error.
C15_OneMissingTolerated ==
    (Generated /\ IsRaid5 /\ arg.errp)
    =>
       IF Cardinality(MissingLegs(PartsOf(TheComps[1]))) <= 1
       THEN ~tables.null
       ELSE tables.null /\ err = LDM_ERROR_MISSING_DISK

\* A RAID5 volume that declares no columns, with every disk present: the
\* call fails with MissingDisk.
C15_ZeroColumns ==
    /\ Generated /\ IsRaid5 /\ arg.errp
    /\ TheComps[1].n_columns = 0
    /\ MissingLegs(PartsOf(TheComps[1])) = {}
    /\ tables.null /\ err = LDM_ERROR_MISSING_DISK

\* A RAID5 volume of three partitions that declares two columns, with two
\* partitions on missing disks: the call succeeds.
C15_TwoMissingAccepted ==
    /\ Generated /\ IsRaid5 /\ arg.errp
    /\ TheComps[1].n_columns = 2
    /\ Cardinality(MissingLegs(PartsOf(TheComps[1]))) = 2
    /\ ~tables.null

\* A volume the spanned generator takes: GEN with one SPANNED component;
\* its partitions in index order.
IsSpanned ==
    /\ TheVolume.type = LDM_VOLUME_TYPE_GEN
    /\ Len(TheComps) = 1
    /\ TheComps[1].type = LDM_COMPONENT_TYPE_SPANNED
SpannedParts == PartsOf(TheComps[1])

\* The number a word of digits stands for.
RECURSIVE ParseDecimal(_)
ParseDecimal(word) ==
    IF word = <<>> THEN 0
    ELSE 10 * ParseDecimal(SubSeq(word, 1, Len(word) - 1))
         + (CHOOSE d \in 0..9 : Digits[d + 1] = word[Len(word)])

\* The start and the end of segment i of a table of "linear" lines, each
\* of six words.
SegmentStart(table, i) == ParseDecimal(table[6 * (i - 1) + 1])
SegmentEnd(table, i) == ParseDecimal(table[6 * (i - 1) + 2])

\* The sizes of the first n partitions, added up.
RECURSIVE SizeOfParts(_, _)
SizeOfParts(parts, n) ==
    IF n = 0 THEN 0 ELSE SizeOfParts(parts, n - 1) + parts[n].size

\* One table with one line per partition; the first segment starts at 0
\* and each next one where the one before it ends.
Contiguous ==
    /\ Len(tables.arr) = 1
    /\ Len(tables.arr[1].table) = 6 * Len(SpannedParts)
    /\ SegmentStart(tables.arr[1].table, 1) = 0
    /\ \A i \in 2..Len(SpannedParts) :
          SegmentStart(tables.arr[1].table, i)
              = SegmentEnd(tables.arr[1].table, i - 1)

\* C16 as stated: the lines of the table of a GEN volume with one SPANNED
\* component are contiguous from 0, and the end of the last segment is
\* the size of the volume.
C16_SegmentsCoverVolume ==
    (Generated /\ IsSpanned /\ ~tables.null)
    =>
       /\ Contiguous
       /\ SegmentEnd(tables.arr[1].table, Len(SpannedParts)) = TheVolume.size

\* C16, amended: the lines are contiguous from 0, segment i ends at the
\* sum of the sizes of the partitions 1..i, and so the end of the last
\* segment is the sum of the sizes of the partitions, whatever the size
\* the volume declares.
C16_SegmentsCoverPartitions ==
    (Generated /\ IsSpanned /\ ~tables.null)
    =>
       /\ Contiguous
       /\ \A i \in 1..Len(SpannedParts) :
             SegmentEnd(tables.arr[1].table, i) = SizeOfParts(SpannedParts, i)

\* C16 witness: the table of a spanned volume of three partitions, on
\* three disks that are present, whose declared size is larger than the
\* partitions.
C16_Witness ==
    /\ Generated /\ IsSpanned /\ ~tables.null
    /\ Len(SpannedParts) = 3
    /\ TheVolume.size > SizeOfParts(SpannedParts, 3)

\* The partitions of the spanned volume that stop the generator: those on
\* a missing disk, and those whose volume offset is not the sum of the
\* sizes of the partitions before them.
MissingParts == MissingLegs(SpannedParts)
MisplacedParts ==
    {i \in 1..Len(SpannedParts) :
        SpannedParts[i].vol_offset # SizeOfParts(SpannedParts, i - 1)}

\* C17 as stated: for a GEN volume with one SPANNED component the call
\* fails with MissingDisk whenever the disk of any partition is missing
\* and, all disks present, with Invalid whenever the volume offset of
\* some partition is not the sum of the sizes before it; no tables are
\* returned. Stated for the calls that pass a location for the error.
C17_MissingDiskFirst ==
    (Generated /\ IsSpanned /\ arg.errp)
    =>
       /\ MissingParts # {} => tables.null /\ err = LDM_ERROR_MISSING_DISK
       /\ (MissingParts = {} /\ MisplacedParts # {})
             => tables.null /\ err = LDM_ERROR_INVALID

\* C17, amended: the call fails, without tables, whenever some partition
\* is on a missing disk or misplaced, and the first such partition in
\* index order decides the error: MissingDisk when its disk is missing
\* (misplaced or not), Invalid otherwise.
C17_FirstPartitionDecides ==
    (Generated /\ IsSpanned /\ MissingParts \cup MisplacedParts # {})
    =>
       /\ tables.null
       /\ arg.errp =>
             err = (IF FirstIndex(MissingParts \cup MisplacedParts) \in MissingParts
                    THEN LDM_ERROR_MISSING_DISK ELSE LDM_ERROR_INVALID)

\* C17 witness: a spanned volume whose first partition is misplaced and
\* on a disk that is present, with a later partition on a missing disk:
\* the call fails with Invalid.
C17_Witness ==
    /\ Generated /\ IsSpanned /\ arg.errp
    /\ 1 \in MisplacedParts \ MissingParts
    /\ MissingParts # {}
    /\ tables.null /\ err = LDM_ERROR_INVALID

\* The characters a table name may hold: the ones the escape leaves alone
\* and "%", which starts an escape.
NameCharacters ==
    Unreserved \cup G_URI_RESERVED_CHARS_ALLOWED_IN_PATH_ELEMENT \cup {"%"}

\* "ldm_<dgname>_<name>" with both parts escaped.
EscapedName(dgname, name) ==
    <<"l", "d", "m", "_">>
    \o g_uri_escape_string(dgname, G_URI_RESERVED_CHARS_ALLOWED_IN_PATH_ELEMENT)
    \o <<"_">>
    \o g_uri_escape_string(name, G_URI_RESERVED_CHARS_ALLOWED_IN_PATH_ELEMENT)

\* The partitions of the volume.
VolumeParts ==
    {TheGroup.parts[p] :
        p \in UNION {Range(TheComps[i].parts) : i \in 1..Len(TheComps)}}

\* C18: every table returned, leaf or top-level, is named
\* ldm_<dgname>_<name> with both parts percent-escaped, and holds no
\* character outside the allowed set unescaped.
C18_NamesEscaped ==
    (Generated /\ ~tables.null)
    =>
       \A k \in 1..Len(tables.arr) :
          /\ Range(tables.arr[k].name) \subseteq NameCharacters
          /\ IF k = Len(tables.arr)
             THEN tables.arr[k].name
                      = EscapedName(TheVolume.dgname, TheVolume.name)
             ELSE \E part \in VolumeParts :
                     tables.arr[k].name
                         = EscapedName(DiskOf(part).dgname, part.name)

\* The same for the leaf tables alone.
C18_LeafNamesEscaped ==
    (Generated /\ ~tables.null)
    =>
       \A k \in 1..(Len(tables.arr) - 1) :
          /\ Range(tables.arr[k].name) \subseteq NameCharacters
          /\ \E part \in VolumeParts :
                tables.arr[k].name = EscapedName(DiskOf(part).dgname, part.name)

\* The table of a volume named "v/1" in the group "dg 1" is returned with
\* the name "ldm_dg 1_v/1".
C18_TopNameAsIs ==
    /\ Generated /\ ~tables.null
    /\ TheVolume.name = <<"v", "/", "1">>
    /\ tables.arr[Len(tables.arr)].name
           = <<"l", "d", "m", "_", "d", "g", " ", "1", "_", "v", "/", "1">>

\* The shapes no generator takes: a GEN volume of several components one
\* of which is not SPANNED or has not exactly one partition, a GEN volume
\* whose one component is RAID, a RAID5 volume that has not exactly one
\* component, a RAID5 volume whose component is not RAID.
IsUnsupported ==
    \/ /\ TheVolume.type = LDM_VOLUME_TYPE_GEN
       /\ Len(TheComps) > 1
       /\ \E i \in 1..Len(TheComps) :
             \/ TheComps[i].type # LDM_COMPONENT_TYPE_SPANNED
             \/ Len(TheComps[i].parts) # 1
    \/ /\ TheVolume.type = LDM_VOLUME_TYPE_GEN
       /\ Len(TheComps) = 1
       /\ TheComps[1].type = LDM_COMPONENT_TYPE_RAID
    \/ /\ TheVolume.type = LDM_VOLUME_TYPE_RAID5
       /\ Len(TheComps) # 1
    \/ /\ TheVolume.type = LDM_VOLUME_TYPE_RAID5
       /\ Len(TheComps) = 1
       /\ TheComps[1].type # LDM_COMPONENT_TYPE_RAID

\* C19: for a volume of one of the four unsupported shapes the call
\* returns no tables, and the error it reports (to a caller that passes a
\* location for it) is NotSupported.
C19_UnsupportedShapes ==
    (Generated /\ IsUnsupported)
    => tables.null /\ (arg.errp => err = LDM_ERROR_NOTSUPPORTED)

\* C19 witness: a GEN volume of three components, the first on a missing
\* disk, the second not SPANNED: NotSupported.
C19_Witness ==
    /\ Generated /\ IsUnsupported /\ arg.errp
    /\ TheVolume.type = LDM_VOLUME_TYPE_GEN /\ Len(TheComps) = 3
    /\ IsMissing(PartsOf(TheComps[1])[1])
    /\ TheComps[2].type # LDM_COMPONENT_TYPE_SPANNED
    /\ tables.null /\ err = LDM_ERROR_NOTSUPPORTED

\* The three other shapes are generated from as well.
C19_OtherShapes ==
    /\ Generated /\ IsUnsupported /\ arg.errp /\ tables.null
    /\ \/ TheVolume.type = LDM_VOLUME_TYPE_RAID5 /\ Len(TheComps) = 0
       \/ TheVolume.type = LDM_VOLUME_TYPE_RAID5 /\ Len(TheComps) = 2
       \/ TheVolume.type = LDM_VOLUME_TYPE_GEN /\ Len(TheComps) = 1

\* ------------------------------------------------------------------------
\* The devices of the spanned-record specification: disk uuid-a of group
\* uuid-g1 with the records of GoodRecords, one of which comes as the
\* entries of a spanned record: any sequence of entry numbers below the
\* total, so that entries can be missing, repeated or out of order.

\* Bound: the entries a stream holds of its spanned record.
MaxEntries == 3

EntrySeqs(total) ==
    UNION {[1..n -> 0..(total - 1)] : n \in 1..MaxEntries}

\* The stream of recs with record j as the entries es of total.
SpannedStream(recs, j, total, es) ==
    SubSeq(Entries(recs), 1, j - 1)
    \o [k \in 1..Len(es) |-> SpannedEntry(j, recs[j], es[k], total)]
    \o SubSeq(Entries(recs), j + 1, Len(recs))

\* The VMDB counts are those of the records.
SpannedDevice(j, total, es) ==
    Device("uuid-a", "uuid-g1", GeomOf("uuid-a"),
           Vmdb(1, Entries(GoodRecords), NoDelta),
           SpannedStream(GoodRecords, j, total, es))

\* The record that is spanned: disk Disk1 (revision 4), disk Disk2
\* (revision 3), the volume, or the first partition.
SpannedDevices ==
    UNION {{SpannedDevice(j, total, es) :
                j \in {2, 3, 4, 6}, es \in EntrySeqs(total)} : total \in 2..3}

\* ldm_add on a device of the family, while the registry holds no group.
AddSpanned ==
    /\ n_calls < MaxCalls
    /\ ~disk_groups.null /\ disk_groups.arr = <<>>
    /\ \E img \in SpannedDevices : Add("/dev/sdb", img)
    /\ UNCHANGED calls

NextSpanned == AddSpanned \/ AddMember

SpecSpanned == Init /\ [][NextSpanned]_vars

\* The spanned records of a stream, and the entry numbers the stream has
\* of record r.
SpannedIds(vblks) ==
    {vblks[k].record_id : k \in {i \in 1..Len(vblks) : vblks[i].entries_total > 1}}
EntriesOf(vblks, r) ==
    {vblks[k].entry : k \in {i \in 1..Len(vblks) : vblks[i].record_id = r}}
TotalOf(vblks, r) ==
    vblks[FirstIndex({i \in 1..Len(vblks) : vblks[i].record_id = r})].entries_total

\* Some spanned record of the stream has not every entry 0..total-1.
HasIncompleteRecord(vblks) ==
    \E r \in SpannedIds(vblks) :
        EntriesOf(vblks, r) # 0..(TotalOf(vblks, r) - 1)

\* Some entry number of a spanned record comes twice.
HasRepeatedEntry(vblks) ==
    \E a, b \in 1..Len(vblks) :
        /\ a < b /\ vblks[a].entries_total > 1
        /\ vblks[a].record_id = vblks[b].record_id
        /\ vblks[a].entry = vblks[b].entry

\* C20: an add that decodes a stream in which some spanned record has not
\* received every entry 0..entries_total-1 fails with Invalid and leaves
\* the registry as it was: no record is decoded from a buffer with a slot
\* that was not filled, and a repeated entry does not stand in for a
\* missing one.
C20_IncompleteRefused ==
    [][(DecodingAdd /\ HasIncompleteRecord(arg'.img.config.vblks)) =>
          (ret' = FALSE /\ err' = LDM_ERROR_INVALID
           /\ disk_groups' = disk_groups)]_vars

\* The same for the streams without a repeated entry.
C20_IncompleteRefusedWithoutRepeats ==
    [][(/\ DecodingAdd
        /\ HasIncompleteRecord(arg'.img.config.vblks)
        /\ ~HasRepeatedEntry(arg'.img.config.vblks)) =>
          (ret' = FALSE /\ err' = LDM_ERROR_INVALID
           /\ disk_groups' = disk_groups)]_vars

\* The add of a stream with entry 0 of 2 twice and no entry 1 of the
\* record of disk Disk1 has succeeded: the group holds a disk decoded from
\* a buffer whose second area is zero bytes.
C20_RepeatAccepted ==
    /\ op = "ldm_add" /\ ret = TRUE /\ n_calls = 1
    /\ HasIncompleteRecord(arg.img.config.vblks)
    /\ EntriesOf(arg.img.config.vblks, 2) = {0}
    /\ Len(disk_groups.arr) = 1
    /\ \E k \in 1..Len(disk_groups.arr[1].disks) :
          /\ disk_groups.arr[1].disks[k].id = 1
          /\ disk_groups.arr[1].disks[k].guid = NilUuid

\* ------------------------------------------------------------------------
\* The var-int decoder on its own: the inputs are a byte string, the
\* cursor into it and the width of the target.

\* Bound: the largest length byte of the inputs (one more than the widest
\* target).
MaxVarIntLen == 9

ByteChoices == {0, 1, 255}

\* The n bytes of an integer: every choice of the three low bytes, the
\* fourth-lowest 0 or 127, the bytes above it zero.
VarIntBodies(n) ==
    IF n <= 3 THEN [1..n -> ByteChoices]
    ELSE {[i \in 1..n |-> IF i < n - 3 THEN 0
                          ELSE IF i = n - 3 THEN top
                          ELSE low[i - (n - 3)]] :
             top \in {0, 127}, low \in [1..3 -> ByteChoices]}

\* A length byte and its bytes, after nothing or after one other byte, and
\* followed by one more byte.
VarIntInputs ==
    UNION {{[var |-> prefix \o <<n>> \o body \o <<7>>,
             cur |-> Len(prefix) + 1] :
               prefix \in {<<>>, <<9>>}, body \in VarIntBodies(n)} :
           n \in 0..MaxVarIntLen}

\* _parse_var_int32(&var, &out, ...) and _parse_var_int64(&var, &out, ...):
\* arg is the bytes, the cursor *var before and after the call, the width
\* of the target and *out after the call.
ParseVarInt(size) ==
    \E input \in VarIntInputs :
    \E r \in {PARSE_VAR_INT(input.var, input.cur, size)} :
    /\ op' = "PARSE_VAR_INT"
    /\ arg' = [var |-> input.var, cur |-> input.cur, size |-> size,
               out |-> r.out, end |-> r.cur]
    /\ ret' = r.ok
    /\ err' = r.err
    /\ UNCHANGED <<disk_groups, fd, config, dg, n_calls, calls, tables>>

ParseVarInt32 == ParseVarInt(SizeofU32)
ParseVarInt64 == ParseVarInt(SizeofU64)

NextVarInt == ParseVarInt32 \/ ParseVarInt64

SpecVarInt == Init /\ [][NextVarInt]_vars

\* The value of a byte string read as a big-endian number.
RECURSIVE ValueOf(_)
ValueOf(bytes) ==
    IF bytes = <<>> THEN 0
    ELSE bytes[Len(bytes)] + 256 * ValueOf(SubSeq(bytes, 1, Len(bytes) - 1))

\* The length byte of the last decoder call.
LengthByte == arg.var[arg.cur]

\* C30: for a length byte n no larger than the width of the target (4 for
\* u32, 8 for u64) the decoder returns the big-endian value of the next n
\* bytes and leaves the cursor n + 1 bytes further; for a larger n it
\* fails with Internal and returns no value.
C30_VarIntDecoded ==
    op = "PARSE_VAR_INT" =>
        IF LengthByte <= arg.size
        THEN /\ ret = TRUE /\ err = NO_ERROR
             /\ arg.out = ValueOf(SubSeq(arg.var, arg.cur + 1,
                                         arg.cur + LengthByte))
             /\ arg.end = arg.cur + LengthByte + 1
        ELSE ret = FALSE /\ err = LDM_ERROR_INTERNAL

\* A u32 of four bytes, the highest 127, has been decoded after a prefix.
C30_Witness ==
    /\ op = "PARSE_VAR_INT" /\ arg.size = SizeofU32 /\ arg.cur = 2
    /\ LengthByte = 4 /\ ret = TRUE
    /\ arg.var[3] = 127 /\ arg.var[6] = 1
    /\ arg.out = 127 * 16777216 + 255 * 65536 + 255 * 256 + 1

\* ------------------------------------------------------------------------
\* The reader specification: ldm_add on devices that differ in their GPT
\* entries, in the window PRIVHEAD gives for the config, in the GUID of the
\* disk, and in where the config places the VMDB and the VBLK entries.

\* Bounds: add calls per behaviour, GPT entries per device.
MaxReadCalls == 2
MaxPtes == 2

\* GPT disks: the entries are of the LDM metadata type or of another, and
\* end at sector 6 (where the device holds PRIVHEAD) or at sector 9.
PteChoices ==
    {[type |-> t, last_lba |-> l] : t \in {LDM_METADATA, "other"}, l \in {6, 9}}

GptDevices ==
    {[BaseDevice EXCEPT !.part0_type = MBR_PART_EFI_PROTECTIVE,
                        !.gpt_get_pte = p, !.ptes = e] :
        p \in {"ok", "read"},
        e \in UNION {[1..n -> PteChoices] : n \in 0..MaxPtes}}

\* The config where PRIVHEAD says: the device of 100 sectors holds it in
\* sectors 89 to 96, so the first sector read is the one with TOCBLOCK two
\* sectors on only for a start of 89 (or one that wraps to 89).
WrappingSectors == WordModulus \div 512

WindowStarts == {0, 89, 92, 93, 100, 101, WrappingSectors - 1,
                 WrappingSectors + 89}
WindowSizes == {0, 8, 11, 12, WrappingSectors - 8, WrappingSectors + 8}

WindowDevice(start, sectors) ==
    [BaseDevice EXCEPT
        !.privhead.ldm_config_start = start,
        !.privhead.ldm_config_size = sectors,
        !.config.toc_magic =
            /\ Wrap64(start * 512) = 89 * 512
            /\ Wrap64(sectors * 512) >= 8 * 512]

WindowDevices ==
    {WindowDevice(start, sectors) :
        start \in WindowStarts, sectors \in WindowSizes}

\* The disks of group uuid-g1, and a device whose PRIVHEAD has a disk GUID
\* that no disk record of the group has.
ForeignDevices ==
    {GroupDevice(d, "uuid-g1", 1, "good") : d \in {"uuid-a", "uuid-b"}}
    \cup
    {Device("uuid-c", g, 2, Vmdb(1, StreamOf("good"), NoDelta),
            StreamOf("good")) : g \in DiskGroupGuids}

\* The layout of the config: a buffer of so many sectors, the bitmap start,
\* and vblk_first_offset and vblk_size of the VMDB. The device holds
\* TOCBLOCK in sector 2 of the config, the VMDB in sector 3 and the entries
\* of the good stream where the VMDB says; the buffer shows of these what is
\* within it, and what the code reads past its end has no magic.
LayoutDevice(sectors, start, first, size, counted) ==
    LET fits == /\ start = 3
                /\ 3 * 512 + SizeofVmdb <= sectors * 512
                /\ 3 * 512 + first + Len(GoodRecords) * size <= sectors * 512
    IN
    [BaseDevice EXCEPT
        !.privhead.ldm_config_size = sectors,
        !.config.toc_magic = (2 * 512 + SizeofTocblock <= sectors * 512),
        !.config.bitmap[1].start = start,
        !.config.vmdb =
            [Vmdb(1, IF counted THEN Entries(GoodRecords) ELSE <<>>, NoDelta)
                EXCEPT !.magic = (/\ start = 3
                                  /\ 3 * 512 + SizeofVmdb <= sectors * 512),
                       !.vblk_first_offset = first,
                       !.vblk_size = size],
        !.config.vblks = IF fits THEN Entries(GoodRecords) ELSE <<>>]

LayoutDevices ==
    {LayoutDevice(sectors, start, first, size, counted) :
        sectors \in {0, 2, 3, 4, 6, 8}, start \in {3, 7, 8},
        first \in {512, 1664, 2556, 2560}, size \in {128, 256},
        counted \in BOOLEAN}

\* The group the lookup of ldm_add_fd finds for the device, 0 for none.
FoundFor(groups, img) == FindDiskGroup(groups.arr, GroupGuidOf(img))

\* Whether ldm_add on the device gets as far as _read_config's g_malloc.
ReadsConfig(groups, img) ==
    /\ ~groups.null /\ img.open = "ok"
    /\ \E privhead \in {_read_privhead(img, SecsizeOf(img))} :
          /\ privhead.ok
          /\ _read_config(img, SecsizeOf(img), privhead.val).ok

\* The bytes the call reads of the config buffer when the lookup finds
\* group found: _find_vmdb, then either _parse_vblks or the committed
\* sequence of the VMDB.
ConfigReads(img, found) ==
    FindVmdbReads(img.config, SecsizeOf(img))
    \cup
    (IF ~ReachesLookup(img) THEN {}
     ELSE IF found = 0 THEN ParseVblksReads(img.config, SecsizeOf(img))
     ELSE {<<VmdbOffset(img.config, SecsizeOf(img)),
             VmdbOffset(img.config, SecsizeOf(img)) + SizeofVmdb>>})

\* The call reads bytes that are not in the config buffer: its behaviour
\* is undefined.
ReadsOutsideConfig(img, found) ==
    ReadsOutside(ConfigReads(img, found),
                 ConfigSize(img.privhead, SecsizeOf(img)))

\* The process does not survive the call: g_malloc has aborted it, or a
\* read outside the buffer was of unmapped memory.
Killed(path, img) ==
    /\ op' = "killed"
    /\ arg' = [path |-> path, img |-> img]
    /\ n_calls' = n_calls + 1
    /\ UNCHANGED <<disk_groups, ret, err, fd, config, dg, tables>>

\* ldm_add(o, path, &err) with what undefined behaviour adds to the
\* outcome the code computes when the bytes past the buffer hold no magic.
AddOrDie(path, img) ==
    IF ReadsConfig(disk_groups, img) /\ MallocAborts(img, SecsizeOf(img))
    THEN Killed(path, img)
    ELSE \/ Add(path, img)
         \/ /\ ReadsConfig(disk_groups, img)
            /\ ReadsOutsideConfig(img, FoundFor(disk_groups, img))
            /\ Killed(path, img)

AddGpt ==
    /\ op # "killed" /\ n_calls < MaxReadCalls
    /\ \E img \in GptDevices : AddOrDie("/dev/sdb", img)
    /\ UNCHANGED calls

AddWindow ==
    /\ op # "killed" /\ n_calls < MaxReadCalls
    /\ \E img \in WindowDevices : AddOrDie("/dev/sdb", img)
    /\ UNCHANGED calls

AddForeign ==
    /\ op # "killed" /\ n_calls < MaxReadCalls
    /\ \E img \in ForeignDevices : AddOrDie("/dev/sdc", img)
    /\ UNCHANGED calls

AddLayout ==
    /\ op # "killed" /\ n_calls < MaxReadCalls
    /\ \E img \in LayoutDevices : AddOrDie("/dev/sdb", img)
    /\ UNCHANGED calls

NextRead == AddGpt \/ AddWindow \/ AddForeign \/ AddLayout

SpecRead == Init /\ [][NextRead]_vars

\* The last call was ldm_add on a GPT disk whose partition table opens and
\* whose entries can be fetched.
AddedGpt ==
    /\ op = "ldm_add" /\ arg.img.open = "ok" /\ arg.img.mbr = "ok"
    /\ arg.img.part0_type = MBR_PART_EFI_PROTECTIVE
    /\ arg.img.gpt_open = "ok" /\ arg.img.gpt_get_pte = "ok"

\* The first entry of the LDM metadata type, 0 for none.
FirstMetadataPte(ptes) ==
    FirstIndex({i \in 1..Len(ptes) : ptes[i].type = LDM_METADATA})

\* C27: on a GPT disk the lookup of PRIVHEAD examines entry i for each i
\* of 0..pte_array_len-1 and reads PRIVHEAD at last_lba * sector size of
\* the first entry of the LDM metadata type, whatever its index: the add
\* goes on when PRIVHEAD is there, fails with Invalid when it is not, and
\* fails with NotLdm only when no entry has the type.
C27_FirstMatchingPte ==
    AddedGpt =>
        LET m == FirstMetadataPte(arg.img.ptes) IN
        IF m = 0 THEN ret = FALSE /\ err = LDM_ERROR_NOT_LDM
        ELSE IF arg.img.ptes[m].last_lba * SecsizeOf(arg.img)
                    = arg.img.ph_offset
        THEN ret = TRUE
        ELSE ret = FALSE /\ err = LDM_ERROR_INVALID

\* What the code does: the entry at index 0 decides alone.
C27_PteZeroDecides ==
    AddedGpt /\ arg.img.ptes # <<>> =>
        IF arg.img.ptes[1].type # LDM_METADATA
        THEN ret = FALSE /\ err = LDM_ERROR_NOT_LDM
        ELSE IF arg.img.ptes[1].last_lba * SecsizeOf(arg.img)
                    = arg.img.ph_offset
        THEN ret = TRUE
        ELSE ret = FALSE /\ err = LDM_ERROR_INVALID

\* A disk whose second entry is the LDM metadata partition has been
\* refused as not LDM.
C27_SecondPteIgnored ==
    /\ AddedGpt /\ Len(arg.img.ptes) = 2
    /\ arg.img.ptes[1].type = "other"
    /\ arg.img.ptes[2] = [type |-> LDM_METADATA, last_lba |-> 6]
    /\ ret = FALSE /\ err = LDM_ERROR_NOT_LDM

\* The last call got as far as the two comparisons of _read_config: the
\* registry is live, the device opens, PRIVHEAD is read and fstat succeeds.
\* The call has returned (ldm_add) or the process is gone (killed).
ComparedWindow ==
    /\ op \in {"ldm_add", "killed"} /\ arg.img.open = "ok"
    /\ _read_privhead(arg.img, SecsizeOf(arg.img)).ok
    /\ arg.img.fstat = "ok"

\* The window [ldm_config_start * secsize, + ldm_config_size * secsize) in
\* unbounded arithmetic, and whether it lies within the device.
WindowStart(img) == img.privhead.ldm_config_start * SecsizeOf(img)
WindowEnd(img) ==
    WindowStart(img) + img.privhead.ldm_config_size * SecsizeOf(img)
WindowInside(img) == WindowEnd(img) <= img.size

\* Neither product nor their sum exceeds the word.
WindowInWord(img) == WindowEnd(img) < WordModulus

\* C28: the config area is read only if the window [ldm_config_start *
\* sector size, + ldm_config_size * sector size) lies within the device
\* size, for every 64-bit value of the two fields, products and sums that
\* exceed 2^64 included; otherwise the add fails with Invalid.
C28_WindowChecked ==
    ComparedWindow /\ ~WindowInside(arg.img) =>
        /\ op = "ldm_add" /\ ret = FALSE /\ err = LDM_ERROR_INVALID
        /\ config = "NULL"

\* The same for the windows whose products and sum fit the word.
C28_WindowCheckedInWord ==
    ComparedWindow /\ ~WindowInside(arg.img) /\ WindowInWord(arg.img) =>
        /\ op = "ldm_add" /\ ret = FALSE /\ err = LDM_ERROR_INVALID
        /\ config = "NULL"

\* A window that starts past the end of the device has been read, at the
\* offset its start wraps to, and the add has succeeded.
C28_WrappedWindowRead ==
    /\ op = "ldm_add" /\ ret = TRUE /\ config = "freed"
    /\ WindowStart(arg.img) > arg.img.size

\* A window whose end wraps into the device has taken the process down.
C28_WrappedSizeAborts ==
    /\ op = "killed" /\ ComparedWindow
    /\ WindowStart(arg.img) <= arg.img.size
    /\ ~WindowInside(arg.img)

\* The groups of the registry with the disk group GUID of the device.
GroupsOfDevice(img) ==
    GroupsWithGuid(disk_groups.arr, GroupGuidOf(img))

\* The disk carries the path and the four locators of the PRIVHEAD.
DiskIsDevice(disk, path, privhead) ==
    /\ disk.device = path
    /\ disk.data_start = privhead.logical_disk_start
    /\ disk.data_size = privhead.logical_disk_size
    /\ disk.metadata_start = privhead.ldm_config_start
    /\ disk.metadata_size = privhead.ldm_config_size

\* C25: after every successful add(path), some disk of the disk group
\* named by the PRIVHEAD of the device has device equal to path, with
\* data_start, data_size, metadata_start and metadata_size from that
\* PRIVHEAD; an add does not report success for a device whose PRIVHEAD
\* disk GUID matches no disk record of the group.
C25_DeviceRecorded ==
    (op = "ldm_add" /\ ret = TRUE /\ ~disk_groups.null) =>
        \E g \in GroupsOfDevice(arg.img) :
        \E k \in 1..Len(disk_groups.arr[g].disks) :
            DiskIsDevice(disk_groups.arr[g].disks[k], arg.path,
                         arg.img.privhead)

\* The same for the devices whose disk GUID is that of a disk record of
\* the group.
C25_KnownDiskRecorded ==
    (/\ op = "ldm_add" /\ ret = TRUE /\ ~disk_groups.null
     /\ \A g \in GroupsOfDevice(arg.img) :
        \E k \in 1..Len(disk_groups.arr[g].disks) :
            disk_groups.arr[g].disks[k].guid = DiskGuidOf(arg.img)) =>
        \E g \in GroupsOfDevice(arg.img) :
        \E k \in 1..Len(disk_groups.arr[g].disks) :
            /\ disk_groups.arr[g].disks[k].guid = DiskGuidOf(arg.img)
            /\ DiskIsDevice(disk_groups.arr[g].disks[k], arg.path,
                            arg.img.privhead)

\* The add of a device whose disk GUID no disk record has, has succeeded,
\* and no disk of the group has a device.
C25_ForeignDiskAccepted ==
    /\ op = "ldm_add" /\ ret = TRUE /\ n_calls = 1
    /\ arg.img.privhead.disk_guid = "uuid-c"
    /\ Len(disk_groups.arr) = 1
    /\ \A k \in 1..Len(disk_groups.arr[1].disks) :
          /\ disk_groups.arr[1].disks[k].guid # DiskGuidOf(arg.img)
          /\ disk_groups.arr[1].disks[k].device = NULL

\* The last call read the config into its buffer (and has returned, or the
\* process is gone), and dg is the group its lookup found.
ReadConfig ==
    /\ op \in {"ldm_add", "killed"}
    /\ arg.img.open = "ok"
    /\ \E privhead \in {_read_privhead(arg.img, SecsizeOf(arg.img))} :
          /\ privhead.ok
          /\ _read_config(arg.img, SecsizeOf(arg.img), privhead.val).ok

\* The group the lookup of the last call found: dg when the call has
\* returned, none in this family when it has not.
FoundByCall == IF op = "ldm_add" THEN dg ELSE 0

\* C23: every byte read as TOCBLOCK, VMDB, VBLK entry header or payload
\* lies inside the config buffer of ldm_config_size * sector size bytes; a
\* bitmap start, a vblk_first_offset or a VBLK stream without a
\* terminating non-VBLK entry that would lead outside the buffer makes the
\* add fail with Invalid instead of being read.
C23_ReadsInsideConfig ==
    ReadConfig =>
        /\ ~ReadsOutsideConfig(arg.img, FoundByCall)
        /\ op = "ldm_add"

\* When the buffer is large enough for everything the config points to,
\* every read is inside it.
C23_FittingConfigRead ==
    (/\ ReadConfig /\ arg.img.config.toc_magic /\ arg.img.config.vmdb.magic
     /\ VblkOffset(arg.img.config, SecsizeOf(arg.img),
                   Len(arg.img.config.vblks)) + SizeofMagic
           <= ConfigSize(arg.img.privhead, SecsizeOf(arg.img))
     /\ VmdbOffset(arg.img.config, SecsizeOf(arg.img)) = 3 * 512) =>
        ~ReadsOutsideConfig(arg.img, FoundByCall)

\* A stream whose last entry ends with the buffer has been accepted: the
\* loop looked for the magic of a next entry past the end of the buffer.
C23_UnterminatedAccepted ==
    /\ op = "ldm_add" /\ ret = TRUE /\ ReadConfig
    /\ Len(arg.img.config.vblks) = Len(GoodRecords)
    /\ VblkOffset(arg.img.config, SecsizeOf(arg.img),
                  Len(arg.img.config.vblks))
          = ConfigSize(arg.img.privhead, SecsizeOf(arg.img))

\* A vblk_first_offset that leads out of the buffer has been followed, and
\* the add has succeeded with a group without records.
C23_OffsetOutsideAccepted ==
    /\ op = "ldm_add" /\ ret = TRUE /\ ReadConfig
    /\ arg.img.config.vblks = <<>>
    /\ VblkOffset(arg.img.config, SecsizeOf(arg.img), 0)
          >= ConfigSize(arg.img.privhead, SecsizeOf(arg.img))

\* A bitmap start past the buffer has been followed: the add has failed
\* with Invalid after reading there, or the process is gone.
C23_StartOutsideRead ==
    /\ ReadConfig /\ arg.img.config.toc_magic
    /\ VmdbOffset(arg.img.config, SecsizeOf(arg.img))
          >= ConfigSize(arg.img.privhead, SecsizeOf(arg.img))
    /\ op = "killed"

\* ------------------------------------------------------------------------
\* The geometry of the VBLK stream on its own: the stride of the loop and
\* the payload length, for the vblk_size the VMDB holds.

\* Bound: the sizes 0..MaxVblkSize and 65536..65536 + MaxVblkSize are
\* tried, and a few usual ones.
MaxVblkSize == 64

VblkSizes ==
    (0..MaxVblkSize) \cup {65536 + k : k \in 0..MaxVblkSize}
    \cup {128, 256, 512, 65535, 131072 + 128}

\* The first lines of _parse_vblks and the advance at the end of its loop
\* body, for a VMDB with this vblk_size: arg is the vblk_size of the VMDB,
\* the distance from one entry to the next and the payload length.
ReadGeometry ==
    \E size \in VblkSizes :
    /\ op' = "_parse_vblks"
    /\ arg' = [vblk_size |-> size,
               stride |-> VblkStride([vblk_size |-> size]),
               data_size |-> vblk_data_size([vblk_size |-> size])]
    /\ UNCHANGED <<disk_groups, ret, err, fd, config, dg, n_calls, calls,
                   tables>>

NextGeometry == ReadGeometry

SpecGeometry == Init /\ [][NextGeometry]_vars

\* C29: for every 32-bit vblk_size in the VMDB, consecutive entries are
\* read vblk_size bytes apart and the payload length is vblk_size minus
\* the 12 bytes of the entry header, values of 65536 and more and values
\* below 12 included.
C29_EntriesVblkSizeApart ==
    op = "_parse_vblks" =>
        /\ arg.stride = arg.vblk_size
        /\ arg.data_size = arg.vblk_size - 12

\* What holds: from the size of the entry header (16 bytes) up to 65535
\* the entries are vblk_size apart and the payload is vblk_size - 16.
C29_GeometryOfShortSizes ==
    (/\ op = "_parse_vblks"
     /\ arg.vblk_size >= SizeofVblkHead
     /\ arg.vblk_size < 65536) =>
        /\ arg.stride = arg.vblk_size
        /\ arg.data_size = arg.vblk_size - SizeofVblkHead

\* A vblk_size of 131072 + 128 is read as 128.
C29_LargeSizeTruncated ==
    /\ op = "_parse_vblks" /\ arg.vblk_size = 131072 + 128
    /\ arg.stride = 128 /\ arg.data_size = 128 - SizeofVblkHead

\* A vblk_size of 8 gives a payload of 65528 bytes.
C29_SmallSizeWraps ==
    /\ op = "_parse_vblks" /\ arg.vblk_size = 8
    /\ arg.data_size = 65528 /\ arg.stride = 65536 + 8

\* ------------------------------------------------------------------------
\* The reassembly specification: disk uuid-a of group uuid-g1 with the
\* records of GoodRecords, where the records of the two disks may be
\* spanned records and their entries come in any order, interleaved with
\* each other and with the volume record.

\* Bound: the entries of the record of disk Disk1.
MaxTotal == 2

\* The entries that are permuted: <<record, entry>> for each entry of the
\* two disk records (records 2 and 3), and the volume record (record 4).
Items(k1, k2) ==
    {<<2, e>> : e \in 0..(k1 - 1)} \cup {<<3, e>> : e \in 0..(k2 - 1)}
    \cup {<<4, 0>>}

Orderings(items) ==
    {f \in [1..Cardinality(items) -> items] :
        \A a, b \in 1..Cardinality(items) : a # b => f[a] # f[b]}

ItemEntry(item, total) ==
    IF total = 1 THEN Entry(item[1], GoodRecords[item[1]])
    ELSE SpannedEntry(item[1], GoodRecords[item[1]], item[2], total)

\* The stream: the group record, the items in the given order, then the
\* component and the two partitions.
ReassemblyStream(k1, k2, order) ==
    <<Entry(1, GoodRecords[1])>>
    \o [i \in 1..Len(order) |->
           ItemEntry(order[i], IF order[i][1] = 2 THEN k1
                               ELSE IF order[i][1] = 3 THEN k2 ELSE 1)]
    \o [i \in 1..3 |-> Entry(4 + i, GoodRecords[4 + i])]

\* A device with a config of 80 sectors, which has room for the streams.
ReassemblyDevice(vblks) ==
    [Device("uuid-a", "uuid-g1", 1, Vmdb(1, Entries(GoodRecords), NoDelta),
            vblks)
        EXCEPT !.privhead.ldm_config_start = 10,
               !.privhead.ldm_config_size = 80]

PermutedDevices ==
    UNION {{ReassemblyDevice(ReassemblyStream(k[1], k[2], order)) :
               order \in Orderings(Items(k[1], k[2]))} :
           k \in (1..MaxTotal) \X (1..2)}

\* The record of disk Disk1 as 256 entries, in stream order or in the
\* opposite order.
LongStream(backwards) ==
    <<Entry(1, GoodRecords[1])>>
    \o [i \in 1..256 |->
           SpannedEntry(2, GoodRecords[2],
                        IF backwards THEN 256 - i ELSE i - 1, 256)]
    \o [i \in 1..5 |-> Entry(2 + i, GoodRecords[2 + i])]

LongDevices == {ReassemblyDevice(LongStream(b)) : b \in BOOLEAN}

\* The record of disk Disk1 as entry 0 of 2 followed by a second entry
\* with the same record_id that declares its own entries_total.
MismatchedStream(entry, total) ==
    <<Entry(1, GoodRecords[1]),
      SpannedEntry(2, GoodRecords[2], 0, 2),
      SpannedEntry(2, GoodRecords[2], entry, total)>>
    \o [i \in 1..5 |-> Entry(2 + i, GoodRecords[2 + i])]

MismatchedDevices ==
    {ReassemblyDevice(MismatchedStream(e[1], e[2])) :
        e \in {<<1, 2>>, <<1, 3>>, <<2, 3>>, <<511, 512>>, <<512, 513>>,
               <<600, 1000>>}}

\* Some memcpy of the VBLK loop writes outside the buffer of its record:
\* the behaviour of the call is undefined from there on.
CopiesOutside(img) ==
    VblkLoop(img.config.vblks, 1, NewDiskGroup(NilUuid), <<>>, FALSE).overflow

\* ldm_add on a device of the family, on an empty registry: the outcome
\* the code computes, and when a copy went outside its buffer also the
\* end of the process.
AddReassembled(devices) ==
    /\ op # "killed" /\ n_calls < MaxCalls
    /\ ~disk_groups.null /\ disk_groups.arr = <<>>
    /\ \E img \in devices :
          \/ Add("/dev/sdb", img)
          \/ CopiesOutside(img) /\ Killed("/dev/sdb", img)
    /\ UNCHANGED calls

AddPermuted == AddReassembled(PermutedDevices)
AddLong == AddReassembled(LongDevices)
AddMismatched == AddReassembled(MismatchedDevices)

NextReassembly == AddPermuted \/ AddLong \/ AddMismatched

SpecReassembly == Init /\ [][NextReassembly]_vars

\* The last call decoded the stream of its device (and has returned, or
\* the process is gone): in this family every call does.
DecodedStream == op \in {"ldm_add", "killed"}

\* The loop over the entries of the last call's stream, as it ended.
TheLoop ==
    VblkLoop(arg.img.config.vblks, 1, NewDiskGroup(NilUuid), <<>>, FALSE)

\* C22: every copy of an entry's payload into a reassembly buffer lands
\* wholly inside the buffer allocated for its record_id: the slot index
\* written is below the number of slots the buffer was allocated with,
\* also when later entries with the same record_id declare another
\* entries_total than the entry that created the buffer.
C22_CopiesInsideBuffer ==
    DecodedStream => ~TheLoop.overflow /\ op = "ldm_add"

\* The buffer of a record has as many slots as the entries_total of the
\* entry that created it, read as the big-endian number it is.
C22_BufferOfEntriesTotal ==
    DecodedStream =>
        \A k \in 1..Len(TheLoop.spanned) :
            TheLoop.spanned[k].alloc = TheLoop.spanned[k].entries_total

\* When every entry of a record declares the same entries_total, below
\* 256, every copy is inside the buffer.
C22_ShortRecordsInside ==
    (/\ DecodedStream
     /\ \A i \in 1..Len(arg.img.config.vblks) :
           LET head == arg.img.config.vblks[i] IN
           /\ head.entries_total < 256
           /\ head.entries_total = TotalOf(arg.img.config.vblks,
                                           head.record_id)) =>
        ~TheLoop.overflow

\* A record of 256 entries has got a buffer of one slot, and its entry 1
\* has been copied past it.
C22_ShortBufferOverrun ==
    /\ DecodedStream
    /\ \E k \in 1..Len(TheLoop.spanned) :
          /\ TheLoop.spanned[k].entries_total = 256
          /\ TheLoop.spanned[k].alloc = 1
          /\ 1 \in DOMAIN TheLoop.spanned[k].data
    /\ TheLoop.overflow

\* Entry 600 of 1000 has been copied into the buffer that entry 0 of 2
\* created for the same record_id.
C22_OtherTotalOverrun ==
    /\ DecodedStream
    /\ \E k \in 1..Len(TheLoop.spanned) :
          /\ TheLoop.spanned[k].entries_total = 2
          /\ 600 \in DOMAIN TheLoop.spanned[k].data
          /\ 600 >= TheLoop.spanned[k].alloc
    /\ TheLoop.overflow

\* Every spanned record of the stream comes as its entries 0..total-1,
\* each once, all declaring the same total.
CompleteOnce(vblks) ==
    \A r \in SpannedIds(vblks) :
        /\ EntriesOf(vblks, r) = 0..(TotalOf(vblks, r) - 1)
        /\ Cardinality({i \in 1..Len(vblks) : vblks[i].record_id = r})
              = TotalOf(vblks, r)
        /\ \A i \in 1..Len(vblks) :
              vblks[i].record_id = r =>
                  vblks[i].entries_total = TotalOf(vblks, r)

\* The group decoded from the records when none of them is spanned.
WholeGroup ==
    ldm_add(ldm_new, "/dev/sdb",
            ReassemblyDevice(Entries(GoodRecords))).disk_groups.arr[1]

\* The buffers of the loop hold, in slot e, entry e of their record.
BuffersInEntryOrder(loop) ==
    \A k \in 1..Len(loop.spanned) :
        /\ DOMAIN loop.spanned[k].data = 0..(loop.spanned[k].entries_total - 1)
        /\ \A e \in DOMAIN loop.spanned[k].data :
              loop.spanned[k].data[e] =
                  [rec |-> [GoodRecords[loop.spanned[k].record_id]
                               EXCEPT !.nfrags = loop.spanned[k].entries_total],
                   frag |-> e]

\* The disks and the volumes of the registry's group are those decoded
\* from the whole records.
DecodedAsWhole ==
    /\ Len(disk_groups.arr) = 1
    /\ {disk_groups.arr[1].disks[k] : k \in 1..Len(disk_groups.arr[1].disks)}
          = {WholeGroup.disks[k] : k \in 1..Len(WholeGroup.disks)}
    /\ disk_groups.arr[1].vols = WholeGroup.vols
    /\ disk_groups.arr[1].comps = WholeGroup.comps

\* C21: for a spanned record of entries_total = k > 1 whose k entries come
\* once each, in any permutation and interleaved with other records in
\* any way, the reassembled buffer and the decoded record are the same.
C21_PermutationInvariant ==
    (DecodedStream /\ CompleteOnce(arg.img.config.vblks)) =>
        /\ op = "ldm_add" /\ ret = TRUE
        /\ BuffersInEntryOrder(TheLoop)
        /\ DecodedAsWhole

\* The same for records of fewer than 256 entries.
C21_ShortRecordsInvariant ==
    (/\ DecodedStream /\ CompleteOnce(arg.img.config.vblks)
     /\ \A r \in SpannedIds(arg.img.config.vblks) :
           TotalOf(arg.img.config.vblks, r) < 256) =>
        /\ op = "ldm_add" /\ ret = TRUE
        /\ BuffersInEntryOrder(TheLoop)
        /\ DecodedAsWhole

\* Both disk records have come as two entries, the second entry of each
\* before the first and the volume record between them, and the group is
\* the one of the whole records.
C21_PermutedDecoded ==
    /\ op = "ldm_add" /\ ret = TRUE /\ DecodedAsWhole
    /\ CompleteOnce(arg.img.config.vblks)
    /\ SpannedIds(arg.img.config.vblks) = {2, 3}
    /\ arg.img.config.vblks[2].record_id = 2 /\ arg.img.config.vblks[2].entry = 1
    /\ arg.img.config.vblks[3].record_id = 3 /\ arg.img.config.vblks[3].entry = 1
    /\ arg.img.config.vblks[4].record_id = 4

\* A record of 256 entries, each present once, has ended the process.
C21_LongRecordKilled ==
    /\ op = "killed" /\ CompleteOnce(arg.img.config.vblks)
    /\ TotalOf(arg.img.config.vblks, 2) = 256
    /\ TheLoop.overflow

\* The ids of the disks of the registry's first group, in list order.
DiskOrder ==
    [k \in 1..Len(disk_groups.arr[1].disks) |-> disk_groups.arr[1].disks[k].id]

\* The positions in the stream of the first and of the last entry of
\* record r.
FirstPos(vblks, r) == FirstIndex({i \in 1..Len(vblks) : vblks[i].record_id = r})
LastPos(vblks, r) == LastIndex({i \in 1..Len(vblks) : vblks[i].record_id = r})

\* The last call decoded a stream all of whose records are whole or
\* complete, without a copy outside a buffer, and has succeeded.
DecodedComplete ==
    /\ op = "ldm_add" /\ ret = TRUE /\ Len(disk_groups.arr) = 1
    /\ CompleteOnce(arg.img.config.vblks)
    /\ ~TheLoop.overflow

\* C26: a spanned record is decoded at the point of the stream where its
\* last missing entry is read, so standalone and spanned records enter
\* the lists in the order in which they complete in the stream: of the
\* two disk records (records 2 and 3, disks 1 and 2), the one whose last
\* entry comes first is first in the list of disks.
C26_CompletionOrder ==
    DecodedComplete =>
        DiskOrder = IF LastPos(arg.img.config.vblks, 2)
                          < LastPos(arg.img.config.vblks, 3)
                    THEN <<1, 2>> ELSE <<2, 1>>

\* Record a is decoded before record b: a is standalone and b is spanned,
\* or both are of one sort and the first entry of a comes first.
DecodedBefore(vblks, a, b) ==
    IF (TotalOf(vblks, a) > 1) # (TotalOf(vblks, b) > 1)
    THEN TotalOf(vblks, b) > 1
    ELSE FirstPos(vblks, a) < FirstPos(vblks, b)

\* C26, as the code has it: spanned records are decoded after the end of
\* the stream, in the order of their first entries; the standalone
\* records, decoded where they are read, are in the lists before them.
C26_SpannedAfterStream ==
    DecodedComplete =>
        DiskOrder = IF DecodedBefore(arg.img.config.vblks, 2, 3)
                    THEN <<1, 2>> ELSE <<2, 1>>

\* The record of disk Disk1 came as two entries, both before the whole
\* record of disk Disk2, and disk 2 is first in the list.
C26_Witness ==
    /\ DecodedComplete
    /\ TotalOf(arg.img.config.vblks, 2) = 2
    /\ TotalOf(arg.img.config.vblks, 3) = 1
    /\ LastPos(arg.img.config.vblks, 2) < FirstPos(arg.img.config.vblks, 3)
    /\ DiskOrder = <<2, 1>>

\* The last call was ldm_volume_generate_dm_tables, and has returned or
\* has ended the process; its volume.
CalledGenerate ==
    op \in {"ldm_volume_generate_dm_tables", "killed"} /\ "vol" \in DOMAIN arg
CalledVolume == disk_groups.arr[arg.group].vols[arg.vol]

\* The errors the generator documents.
GenerateErrors ==
    {LDM_ERROR_NOTSUPPORTED, LDM_ERROR_MISSING_DISK, LDM_ERROR_INVALID}

\* The call has returned a list of tables, or no list and, when the caller
\* gave a location for it, one of the documented errors.
TablesOrError ==
    /\ op = "ldm_volume_generate_dm_tables"
    /\ IF tables.null THEN (arg.errp => err \in GenerateErrors)
       ELSE tables.arr # <<>> /\ err = NO_ERROR

\* C24: for every volume of a group in the registry the generator returns
\* a table list or a documented error and never indexes a list of
\* children out of range; in particular a GEN volume with no component
\* (n_comps = 0, which the resolver accepts) yields NotSupported rather
\* than a read of element 0 of an empty list.
C24_TablesOrError ==
    CalledGenerate =>
        /\ TablesOrError
        /\ ~ReadsPastComps(CalledVolume)
        /\ (CalledVolume.type = LDM_VOLUME_TYPE_GEN
            /\ CalledVolume.n_comps = 0 /\ arg.errp)
              => (tables.null /\ err = LDM_ERROR_NOTSUPPORTED)

\* The same for the volumes that are not GEN volumes without a component.
C24_OtherVolumes ==
    (CalledGenerate /\ ~ReadsPastComps(CalledVolume)) => TablesOrError

\* The generator was called on a GEN volume without a component, which the
\* resolver had accepted, and the process is gone.
C24_EmptyVolumeKills ==
    /\ CalledGenerate /\ op = "killed"
    /\ CalledVolume.type = LDM_VOLUME_TYPE_GEN
    /\ CalledVolume.n_comps = 0 /\ CalledVolume.comps = <<>>

====
